---------------------------- MODULE Spec2Model ----------------------------
(***************************************************************************)
(* A model of the Dynatrace A2A agent: the intent classifier of            *)
(* agent_executor.py (_parse_intent and its extractors, computed on        *)
(* character strings as the regular expressions and substring tests of the *)
(* code compute them), the request handler execute, the eight skills of    *)
(* dynatrace_agent.py as sequences of awaited calls with their try/except  *)
(* structure, get_problem_details and the formatters of                    *)
(* dynatrace_client.py (the problem list, the metrics data and the problem *)
(* report, as the texts they build), and the startup of main.py from the   *)
(* environment variables to the running server.                            *)
(*                                                                         *)
(* Strings are TLA+ strings; SubSeq, Len and \o act on them character by   *)
(* character.  Python's None is the empty tuple None, a present value v is *)
(* Some(v).                                                                *)
(***************************************************************************)
EXTENDS Integers, Sequences, FiniteSets, TLC

VARIABLES
    query,      \* the text of the request (what _extract_query returns)
    model,      \* DynatraceAgent.model: GEMINI_MODEL or its default
    pc,         \* the statement the handler is at (an await point)
    skill,      \* _parse_intent's skill name ("" before classification)
    params,     \* _parse_intent's parameter dict
    timeRange,  \* the value a direct call of _extract_time_range returned
    lookup,     \* get_problem_details: what the display-id search returned
    problem,    \* the problem record get_problem_details returned
    context,    \* the keys of context_data filled so far
    output,     \* the sections appended to the skill's output list so far
    aiModel,    \* _ai_analyze: index into models_to_try of the next attempt
    aiCalls,    \* the calls of generate_content in order: model, prompt data, outcome
    response,   \* the string the skill returned to execute (None before)
    raised,     \* the frames an exception left uncaught: "skill", "execute"
    faults,     \* the statements at which a call raised
    events,     \* the event queue: the text messages enqueued so far
    requests,   \* the HTTP requests _make_request was called with, in order
    env,        \* os.environ after load_dotenv: variable name to None or Some(text)
    boot,       \* main: the statement the process is at, and DynatraceClient.base_url
    reply       \* the response dict a formatter of dynatrace_client.py is called with

vars == <<query, model, pc, skill, params, timeRange, lookup, problem, context,
          output, aiModel, aiCalls, response, raised, faults, events, requests,
          env, boot, reply>>

None == << >>
Some(v) == <<v>>

-----------------------------------------------------------------------------
(* Characters and the str methods the classifier uses.                      *)

UpperAlpha == "ABCDEFGHIJKLMNOPQRSTUVWXYZ"
LowerAlpha == "abcdefghijklmnopqrstuvwxyz"
DigitChars == "0123456789"

\* s[i:i+1], 1-based: the character at i, "" outside the string
Ch(s, i) == IF i >= 1 /\ i <= Len(s) THEN SubSeq(s, i, i) ELSE ""

Suffix(s, i) == SubSeq(s, i, Len(s))

CharsOf(alphabet) == {Ch(alphabet, k) : k \in 1..Len(alphabet)}

UpperSet == CharsOf(UpperAlpha)
LowerSet == CharsOf(LowerAlpha)
DigitSet == CharsOf(DigitChars)

\* str.lower() and str.upper() on one character, as tables
LowerTable == [c \in UpperSet |-> Ch(LowerAlpha, CHOOSE k \in 1..26 : Ch(UpperAlpha, k) = c)]
UpperTable == [c \in LowerSet |-> Ch(UpperAlpha, CHOOSE k \in 1..26 : Ch(LowerAlpha, k) = c)]
DigitValue == [c \in DigitSet |-> (CHOOSE k \in 1..10 : Ch(DigitChars, k) = c) - 1]

IsDigit(c) == c \in DigitSet

IsLetter(c) == c \in UpperSet \/ c \in LowerSet

\* \w of the re module on the characters of the model
IsWordChar(c) == IsLetter(c) \/ IsDigit(c) \/ c = "_"

\* \s of the re module on the characters of the model
IsSpace(c) == c = " "

LowerCh(c) == IF c \in UpperSet THEN LowerTable[c] ELSE c

UpperCh(c) == IF c \in LowerSet THEN UpperTable[c] ELSE c

RECURSIVE Lower(_)
Lower(s) == IF s = "" THEN "" ELSE LowerCh(Ch(s, 1)) \o Lower(Suffix(s, 2))

RECURSIVE Upper(_)
Upper(s) == IF s = "" THEN "" ELSE UpperCh(Ch(s, 1)) \o Upper(Suffix(s, 2))

RECURSIVE LStrip(_)
LStrip(s) == IF s # "" /\ IsSpace(Ch(s, 1)) THEN LStrip(Suffix(s, 2)) ELSE s

RECURSIVE RStrip(_)
RStrip(s) ==
    IF s # "" /\ IsSpace(Ch(s, Len(s))) THEN RStrip(SubSeq(s, 1, Len(s) - 1)) ELSE s

Strip(s) == RStrip(LStrip(s))

\* s[i:].startswith(w)
StartsAt(s, i, w) == i >= 1 /\ i + Len(w) - 1 <= Len(s) /\ SubSeq(s, i, i + Len(w) - 1) = w

StartsWith(s, w) == StartsAt(s, 1, w)

\* `w in s`
Contains(s, w) == \E i \in 1..(Len(s) - Len(w) + 1) : StartsAt(s, i, w)

\* any(w in s for w in ws)
ContainsAny(s, ws) == \E w \in ws : Contains(s, w)

\* int(text) of a string of decimal digits
RECURSIVE ParseInt(_)
ParseInt(s) ==
    IF s = "" THEN 0
    ELSE 10 * ParseInt(SubSeq(s, 1, Len(s) - 1)) + DigitValue[Ch(s, Len(s))]

\* str(n) of a natural number
RECURSIVE IntToStr(_)
IntToStr(n) ==
    IF n < 10 THEN Ch(DigitChars, n + 1)
    ELSE IntToStr(n \div 10) \o Ch(DigitChars, (n % 10) + 1)

Min(S) == CHOOSE x \in S : \A y \in S : x <= y

Max(S) == CHOOSE x \in S : \A y \in S : x >= y

-----------------------------------------------------------------------------
(* The regular expressions of agent_executor.py, matched as re.search      *)
(* matches them (leftmost start, greedy quantifiers with backtracking,     *)
(* re.IGNORECASE); the value is group(1) taken from the text as written.   *)
(* s is the text as written and l its lower-cased copy, on which the        *)
(* letters of a pattern are compared (re.IGNORECASE).                       *)

\* \b at the gap before position i
Boundary(s, i) == IsWordChar(Ch(s, i - 1)) # IsWordChar(Ch(s, i))

\* last index of the longest run of digits that starts at i (i - 1: no digit)
RECURSIVE DigitRunEnd(_, _)
DigitRunEnd(s, i) == IF IsDigit(Ch(s, i)) THEN DigitRunEnd(s, i + 1) ELSE i - 1

\* last index of the longest run of whitespace that starts at i
RECURSIVE SpaceRunEnd(_, _)
SpaceRunEnd(s, i) == IF IsSpace(Ch(s, i)) THEN SpaceRunEnd(s, i + 1) ELSE i - 1

\* [A-Z0-9_-] under re.IGNORECASE
IsIdClass(c) == IsLetter(c) \/ IsDigit(c) \/ c = "_" \/ c = "-"

RECURSIVE IdClassRunEnd(_, _)
IdClassRunEnd(s, i) == IF IsIdClass(Ch(s, i)) THEN IdClassRunEnd(s, i + 1) ELSE i - 1

\* the span <<from, to>> of group(1) of the leftmost match, given the set of
\* spans of the matches by start position; None when nothing matches
Leftmost(s, spans) ==
    IF spans = {} THEN None
    ELSE LET first == Min({sp[1] : sp \in spans})
             sp == CHOOSE x \in spans : x[1] = first
         IN  Some(SubSeq(s, sp[2], sp[3]))

\* r'\b(P-\d+)\b' at start i: the end of the match, 0 when it fails
DisplayIdEnd(s, l, i) ==
    LET e == DigitRunEnd(s, i + 2)
    IN  IF /\ Boundary(s, i)
           /\ Ch(l, i) = "p"
           /\ Ch(s, i + 1) = "-"
           /\ e >= i + 2
           /\ Boundary(s, e + 1)
        THEN e ELSE 0

\* r'\bproblem\s+(?:id\s+)?[#]?(\d+)\b' at start i: <<from, to>> of the digits
ProblemNumberSpan(s, l, i) ==
    LET sp1  == SpaceRunEnd(s, i + 7)
        k    == sp1 + 1
        sp2  == SpaceRunEnd(s, k + 2)
        k2   == IF StartsAt(l, k, "id") /\ sp2 >= k + 2 THEN sp2 + 1 ELSE k
        k3   == IF Ch(s, k2) = "#" THEN k2 + 1 ELSE k2
        e    == DigitRunEnd(s, k3)
    IN  IF /\ Boundary(s, i)
           /\ StartsAt(l, i, "problem")
           /\ sp1 >= i + 7
           /\ e >= k3
           /\ Boundary(s, e + 1)
        THEN <<k3, e>> ELSE <<0, 0>>

\* r'_\d+V\d+\b' at the underscore k: the end of the match, 0 when it fails
FullIdTailEnd(s, l, k) ==
    LET d1 == DigitRunEnd(s, k + 1)
        e  == DigitRunEnd(s, d1 + 2)
    IN  IF /\ Ch(s, k) = "_"
           /\ d1 >= k + 1
           /\ Ch(l, d1 + 1) = "v"
           /\ e >= d1 + 2
           /\ Boundary(s, e + 1)
        THEN e ELSE 0

\* r'\b([A-Z0-9_-]+_\d+V\d+)\b' at start i: the end of the match, 0 when it
\* fails; the greedy [A-Z0-9_-]+ gives back characters until the tail matches
FullIdEnd(s, l, i) ==
    LET r  == IdClassRunEnd(s, i)
        ks == {k \in (i + 1)..r : FullIdTailEnd(s, l, k) > 0}
    IN  IF Boundary(s, i) /\ r >= i /\ ks # {} THEN FullIdTailEnd(s, l, Max(ks)) ELSE 0

\* re.search: the matches by start position, as <<start, from, to>> of group(1)
PatternDisplayId(s) ==
    LET l == Lower(s)
    IN  Leftmost(s, {<<i, i, DisplayIdEnd(s, l, i)>> :
                        i \in {j \in 1..Len(s) : DisplayIdEnd(s, l, j) > 0}})

PatternProblemNumber(s) ==
    LET l == Lower(s)
        span == [i \in 1..Len(s) |-> ProblemNumberSpan(s, l, i)]
    IN  Leftmost(s, {<<i, span[i][1], span[i][2]>> : i \in {j \in 1..Len(s) : span[j][1] > 0}})

PatternFullId(s) ==
    LET l == Lower(s)
    IN  Leftmost(s, {<<i, i, FullIdEnd(s, l, i)>> :
                        i \in {j \in 1..Len(s) : FullIdEnd(s, l, j) > 0}})

\* _extract_problem_id: the first pattern of the list that matches
\* a plausible bug: the identifier is taken from the lower-cased query
ExtractProblemIdLowered(q) ==
    IF PatternDisplayId(q) # None THEN Some(Lower(PatternDisplayId(q)[1]))
    ELSE IF PatternProblemNumber(q) # None THEN PatternProblemNumber(q)
    ELSE PatternFullId(q)

ExtractProblemId(q) ==
    IF PatternDisplayId(q) # None THEN PatternDisplayId(q)
    ELSE IF PatternProblemNumber(q) # None THEN PatternProblemNumber(q)
    ELSE PatternFullId(q)


-----------------------------------------------------------------------------
(* _extract_time_range.  The patterns have no \b; t is the text as written, *)
(* matched under re.IGNORECASE.                                             *)

\* r'<prefix>\s+(\d+)\s*<unit>...' at start i: <<from, to>> of the digits.
\* What follows the unit letter, (?:our)?s? and the like, is optional and
\* never makes the match fail.
PrefixedSpan(t, l, i, prefix, unit) ==
    LET j   == i + Len(prefix)
        sp1 == SpaceRunEnd(t, j)
        d   == DigitRunEnd(t, sp1 + 1)
        sp2 == SpaceRunEnd(t, d + 1)
    IN  IF /\ StartsAt(l, i, prefix)
           /\ sp1 >= j
           /\ d >= sp1 + 1
           /\ Ch(l, sp2 + 1) = unit
        THEN <<sp1 + 1, d>> ELSE <<0, 0>>

\* r'(\d+)\s*<unit>(?:<rest>)?s?\s+ago' at start i: <<from, to>> of the digits
AgoSpan(t, l, i, unit, rest) ==
    LET d   == DigitRunEnd(t, i)
        sp  == SpaceRunEnd(t, d + 1)
        p   == sp + 2
        afterRest == {p} \cup (IF StartsAt(l, p, rest) THEN {p + Len(rest)} ELSE {})
        afterS    == afterRest \cup {q + 1 : q \in {x \in afterRest : Ch(l, x) = "s"}}
    IN  IF /\ d >= i
           /\ Ch(l, sp + 1) = unit
           /\ \E q \in afterS :
                  SpaceRunEnd(t, q) >= q /\ StartsAt(l, SpaceRunEnd(t, q) + 1, "ago")
        THEN <<i, d>> ELSE <<0, 0>>

PatternPrefixed(t, l, prefix, unit) ==
    LET span == [i \in 1..Len(t) |-> PrefixedSpan(t, l, i, prefix, unit)]
    IN  Leftmost(t, {<<i, span[i][1], span[i][2]>> : i \in {j \in 1..Len(t) : span[j][1] > 0}})

PatternAgo(t, l, unit, rest) ==
    LET span == [i \in 1..Len(t) |-> AgoSpan(t, l, i, unit, rest)]
    IN  Leftmost(t, {<<i, span[i][1], span[i][2]>> : i \in {j \in 1..Len(t) : span[j][1] > 0}})

\* r'this\s+week'
MatchesThisWeek(l) ==
    \E i \in 1..Len(l) :
        /\ StartsAt(l, i, "this")
        /\ SpaceRunEnd(l, i + 4) >= i + 4
        /\ StartsAt(l, SpaceRunEnd(l, i + 4) + 1, "week")

\* the pattern list of _extract_time_range, in order: for each pattern of the
\* list the formatter's result when the pattern matches, None when it does not
TimePatternResults(t) ==
    LET l    == Lower(t)
        h(m) == IF m = None THEN None ELSE Some(m[1] \o "h")
        d(m) == IF m = None THEN None ELSE Some(m[1] \o "d")
        w(m) == IF m = None THEN None ELSE Some(IntToStr(ParseInt(m[1]) * 7) \o "d")
    IN  << h(PatternPrefixed(t, l, "last", "h")),
           d(PatternPrefixed(t, l, "last", "d")),
           w(PatternPrefixed(t, l, "last", "w")),
           h(PatternPrefixed(t, l, "past", "h")),
           d(PatternPrefixed(t, l, "past", "d")),
           h(PatternAgo(t, l, "h", "our")),
           d(PatternAgo(t, l, "d", "ay")),
           IF Contains(l, "today") THEN Some("24h") ELSE None,
           IF MatchesThisWeek(l) THEN Some("7d") ELSE None >>

\* a plausible bug: the list is walked from its end
LastPresent(results, dflt) ==
    LET hits == {k \in 1..Len(results) : results[k] # None}
    IN  IF hits = {} THEN dflt ELSE results[Max(hits)][1]

\* the first entry of a list of optional values that is present, else dflt
FirstPresent(results, dflt) ==
    LET hits == {k \in 1..Len(results) : results[k] # None}
    IN  IF hits = {} THEN dflt ELSE results[Min(hits)][1]

\* a plausible bug: the default of the skill signature as the default
ExtractTimeRangeDefaultTwoHours(q) == FirstPresent(TimePatternResults(q), "2h")

ExtractTimeRange(q) == FirstPresent(TimePatternResults(q), "24h")

-----------------------------------------------------------------------------
(* _extract_entity_type and _extract_metric_type: the first keyword of the  *)
(* mapping, in declaration order, that occurs in query.lower().             *)

EntityMappings ==
    << <<"service", "SERVICE">>, <<"services", "SERVICE">>,
       <<"host", "HOST">>, <<"hosts", "HOST">>,
       <<"server", "HOST">>, <<"servers", "HOST">>,
       <<"process", "PROCESS_GROUP">>, <<"processes", "PROCESS_GROUP">>,
       <<"application", "APPLICATION">>, <<"applications", "APPLICATION">>,
       <<"database", "DATABASE">>, <<"databases", "DATABASE">> >>

MetricMappings ==
    << <<"cpu", "cpu">>, <<"processor", "cpu">>,
       <<"memory", "memory">>, <<"ram", "memory">>,
       <<"disk", "disk">>, <<"storage", "disk">>,
       <<"response time", "response_time">>, <<"latency", "response_time">>,
       <<"error rate", "error_rate">>, <<"errors", "error_rate">>,
       <<"throughput", "throughput">>, <<"requests", "throughput">>,
       <<"availability", "availability">>, <<"uptime", "availability">>,
       <<"network", "network">>, <<"traffic", "network">> >>

\* for keyword, value in mapping.items(): if keyword in query_lower: return value
FirstKeyword(q, mapping) ==
    LET ql   == Lower(q)
        hits == {k \in 1..Len(mapping) : Contains(ql, mapping[k][1])}
    IN  IF hits = {} THEN None ELSE Some(mapping[Min(hits)][2])

ExtractEntityType(q) == FirstKeyword(q, EntityMappings)

ExtractMetricType(q) == FirstKeyword(q, MetricMappings)

\* Python's `x or y` on an optional string
OrElse(opt, dflt) == IF opt = None THEN dflt ELSE opt[1]

-----------------------------------------------------------------------------
(* _parse_intent: the cascade of rules, first match wins.                   *)

\* a plausible bug: "investigate" left to the root-cause rule alone
AnalyzeWordsWithoutInvestigate == {"analyze", "detail", "what", "explain", "tell me about"}

AnalyzeWords == {"analyze", "detail", "investigate", "what", "explain", "tell me about"}
RootCausePhrases == {"root cause", "rca", "why is", "what caused", "investigate"}
ProblemWords == {"problem", "problems", "alert", "alerts", "issue", "issues", "incident"}
TopologyWords == {"topology", "dependencies", "architecture", "map"}
TopologyPhrases == {"list services", "show services", "all services",
                    "list hosts", "show hosts", "all hosts"}
MetricWords == {"metric", "metrics", "performance", "usage"}
\* a plausible bug: only the nouns are listed
DeploymentNouns == {"deployment", "deployments", "release", "releases", "change", "changes"}

DeploymentWords == {"deploy", "deployment", "deployments", "release", "releases",
                    "change", "changes"}
HealthPhrases == {"health", "status", "overview", "summary", "how is", "how's", "dashboard"}

\* a plausible bug: the severity table tested in another order
ListProblemsParamsErrorFirst(q) ==
    LET ql == Strip(Lower(q))
    IN  [status |-> IF Contains(ql, "open") THEN Some("OPEN")
                    ELSE IF Contains(ql, "closed") THEN Some("CLOSED") ELSE None,
         severity |-> IF Contains(ql, "error") THEN Some("ERROR")
                      ELSE IF Contains(ql, "critical") \/ Contains(ql, "availability")
                          THEN Some("AVAILABILITY")
                      ELSE IF Contains(ql, "performance") \/ Contains(ql, "slow")
                          THEN Some("PERFORMANCE")
                      ELSE None,
         time_range |-> ExtractTimeRange(q)]

\* lines 185-197: the parameters of list_problems
ListProblemsParams(q) ==
    LET ql == Strip(Lower(q))
    IN  [status |-> IF Contains(ql, "open") THEN Some("OPEN")
                    ELSE IF Contains(ql, "closed") THEN Some("CLOSED") ELSE None,
         severity |-> IF Contains(ql, "critical") \/ Contains(ql, "availability")
                          THEN Some("AVAILABILITY")
                      ELSE IF Contains(ql, "error") THEN Some("ERROR")
                      ELSE IF Contains(ql, "performance") \/ Contains(ql, "slow")
                          THEN Some("PERFORMANCE")
                      ELSE None,
         time_range |-> ExtractTimeRange(q)]

\* a plausible bug: the symptoms are passed along whether or not an id was found
RootCauseParamsBoth(q) ==
    [problem_id |-> ExtractProblemId(q), symptoms |-> Some(q)]

\* lines 176-178: the parameters of root_cause_analysis
RootCauseParams(q) ==
    LET problem_id == ExtractProblemId(q)
    IN  [problem_id |-> problem_id,
         symptoms |-> IF problem_id = None THEN Some(q) ELSE None]

\* lines 199-243: the rules after list_problems
ParseIntentRest(q) ==
    LET ql == Strip(Lower(q))
        metric_type == ExtractMetricType(q)
    IN  IF ContainsAny(ql, TopologyWords)
        THEN [skill |-> "get_topology",
              params |-> [entity_type |-> OrElse(ExtractEntityType(q), "SERVICE")]]
        ELSE IF ContainsAny(ql, TopologyPhrases)
        THEN [skill |-> "get_topology",
              params |-> [entity_type |-> OrElse(ExtractEntityType(q), "SERVICE")]]
        ELSE IF metric_type # None \/ ContainsAny(ql, MetricWords)
        THEN [skill |-> "query_metrics",
              params |-> [metric |-> OrElse(metric_type, "cpu"),
                          entity_type |-> ExtractEntityType(q),
                          time_range |-> ExtractTimeRange(q)]]
        ELSE IF ContainsAny(ql, DeploymentWords)
        THEN [skill |-> "get_deployments", params |-> [time_range |-> ExtractTimeRange(q)]]
        ELSE IF ContainsAny(ql, HealthPhrases)
        THEN [skill |-> "health_summary", params |-> << >>]
        ELSE [skill |-> "query", params |-> [question |-> q]]

\* a plausible bug: the list_problems rule tested before root_cause_analysis
ParseIntentListFirst(q) ==
    LET ql == Strip(Lower(q))
        problem_id == ExtractProblemId(q)
    IN  IF problem_id # None /\ ContainsAny(ql, AnalyzeWords)
        THEN [skill |-> "analyze_problem", params |-> [problem_id |-> problem_id]]
        ELSE IF ContainsAny(ql, ProblemWords)
        THEN [skill |-> "list_problems", params |-> ListProblemsParams(q)]
        ELSE IF ContainsAny(ql, RootCausePhrases)
        THEN [skill |-> "root_cause_analysis", params |-> RootCauseParams(q)]
        ELSE ParseIntentRest(q)

\* lines 161-197, then the rest of the cascade
ParseIntent(q) ==
    LET ql == Strip(Lower(q))
        problem_id == ExtractProblemId(q)
    IN  IF problem_id # None /\ ContainsAny(ql, AnalyzeWords)
        THEN [skill |-> "analyze_problem", params |-> [problem_id |-> problem_id]]
        ELSE IF ContainsAny(ql, RootCausePhrases)
        THEN [skill |-> "root_cause_analysis", params |-> RootCauseParams(q)]
        ELSE IF ContainsAny(ql, ProblemWords)
        THEN [skill |-> "list_problems", params |-> ListProblemsParams(q)]
        ELSE ParseIntentRest(q)

-----------------------------------------------------------------------------
(* The requests of dynatrace_client.py, as the arguments _make_request is    *)
(* called with.                                                             *)

RECURSIVE Join(_, _)
Join(strs, sep) ==
    IF strs = << >> THEN ""
    ELSE IF Len(strs) = 1 THEN strs[1]
    ELSE strs[1] \o sep \o Join(Tail(strs), sep)

\* f'{name}("{value}")' when the optional value is given
Selector(name, opt) ==
    IF opt = None THEN << >> ELSE << name \o "(\"" \o opt[1] \o "\")" >>

\* get_problems(status, severity, from_time)
GetProblemsRequest(status, severity, from_time) ==
    LET selectors == Selector("status", status) \o Selector("severityLevel", severity)
    IN  [endpoint |-> "/problems",
         params |-> [from |-> from_time, to |-> "now", pageSize |-> 50,
                     problemSelector |-> IF selectors = << >> THEN None
                                         ELSE Some(Join(selectors, ","))]]

\* get_problem_details, lines 142-149: the search by display id
SearchRequest(display_id) ==
    [endpoint |-> "/problems",
     params |-> [problemSelector |-> Some("displayId(\"" \o display_id \o "\")"),
                 pageSize |-> 1, from |-> "now-90d"]]

\* get_problem_details, lines 163-164: the detail request
DetailRequest(problem_id) ==
    [endpoint |-> "/problems/" \o problem_id,
     params |-> [fields |-> "+evidenceDetails,+impactAnalysis,+recentComments"]]

\* get_entities(entity_selector, fields)
GetEntitiesRequest(entity_selector, fields) ==
    [endpoint |-> "/entities",
     params |-> [entitySelector |-> entity_selector, from |-> "now-2h",
                 pageSize |-> 50, fields |-> fields]]

\* query_metrics(metric_selector, entity_selector, from_time, resolution)
QueryMetricsRequest(metric_selector, entity_selector, from_time, resolution) ==
    [endpoint |-> "/metrics/query",
     params |-> [metricSelector |-> metric_selector, from |-> from_time, to |-> "now",
                 resolution |-> resolution, entitySelector |-> entity_selector]]

\* get_releases(entity_selector, from_time)
GetReleasesRequest(entity_selector, from_time) ==
    [endpoint |-> "/releases",
     params |-> [from |-> from_time, to |-> "now", pageSize |-> 50,
                 releasesSelector |-> IF entity_selector = None THEN None
                                      ELSE Some("affectedEntities(" \o entity_selector[1] \o ")")]]

\* line 140: problem_id.upper().startswith("P-")
IsDisplayId(problem_id) == StartsWith(Upper(problem_id), "P-")

\* lines 150-160: what get_problem_details makes of the search result: the
\* internal id to fetch, or the ValueError it raises
LookupFallsBackToDisplayId(display_id, problems) ==
    IF problems = << >> \/ problems[1].problemId = None
    THEN [raises |-> FALSE, problem_id |-> display_id]
    ELSE [raises |-> FALSE, problem_id |-> problems[1].problemId[1]]

Lookup(display_id, problems) ==
    IF problems = << >>
    THEN [raises |-> TRUE, message |-> "Problem " \o display_id \o " not found"]
    ELSE IF problems[1].problemId = None
    THEN [raises |-> TRUE, message |-> "Could not resolve internal ID for " \o display_id]
    ELSE [raises |-> FALSE, problem_id |-> problems[1].problemId[1]]

-----------------------------------------------------------------------------
(* What the monitoring API and the language model may answer.               *)

\* the message of an exception _make_request lets through (raise_for_status,
\* a timeout, response.json() on a malformed body)
HttpErrors == {"503 Service Unavailable"}

\* the message of an exception generate_content raises
RateLimitError == "429 RESOURCE_EXHAUSTED"
\* a message of more than 100 characters
LongModelError ==
    "503 UNAVAILABLE: the model is overloaded, please retry the request later; "
    \o "request id 0123456789abcdef0123456789abcdef, zone us-central1-b"
ModelErrors == {RateLimitError, "500 INTERNAL", LongModelError}

\* the text generate_content answers with
ModelText == "analysis"

\* the internal identifier of the problem records of the environment
InternalId == "-8123456_1699V2"

\* the `problems` list a display-id search may return
SearchResults ==
    { << >>, << [problemId |-> None] >>, << [problemId |-> Some(InternalId)] >> }

\* the shapes of affectedEntities in a problem record: no entity, an entity
\* with entityId {"id": ...}, one whose entityId has no id, one whose
\* entityId is a plain string
AffectedShapes == {"none", "id", "no_id", "string"}

ProblemRecords == [affected : AffectedShapes]

\* a response with or without items (problems, entities, series, releases)
ListResponses == {[totalCount |-> 0], [totalCount |-> 2]}

\* the most values of a series, series of a metric and metrics of a response
MaxValues == 3
MaxSeries == 7
MaxMetrics == 2

\* a metric value of a series: null or a number
MetricValues == {None, Some(10), Some(15), Some(20)}

\* the `values` lists of a series
RECURSIVE ValueLists(_)
ValueLists(n) ==
    IF n = 0 THEN {<< >>}
    ELSE ValueLists(n - 1)
            \cup {Append(vs, v) : vs \in {w \in ValueLists(n - 1) : Len(w) = n - 1},
                                  v \in MetricValues}

\* the time of a data point, in milliseconds since the epoch (12:34:56 of
\* its first day: the integers of TLC have 32 bits)
Timestamp == 45296000

\* a series of a host with the given values, one timestamp for each
Series(k, values) ==
    [dimensions |-> << "HOST-" \o IntToStr(k) >>,
     timestamps |-> [i \in 1..Len(values) |-> Timestamp],
     values |-> values]

\* the responses of GET /metrics/query: one metric with one series of any
\* values, with or without dimensions and timestamps; any number of metrics
\* with any number of series each; a response without result
MetricsResponses ==
    {[result |-> << [metricId |-> "builtin:host.cpu.usage:avg", data |-> << s >>] >>] :
        s \in {Series(1, vs) : vs \in ValueLists(MaxValues)}
               \cup {[values |-> vs] : vs \in ValueLists(1)}
               \cup {[dimensions |-> << "HOST-1", "eth0" >>, values |-> vs, timestamps |-> << >>] :
                         vs \in ValueLists(1)}}
    \cup {[result |-> [m \in 1..metrics |->
                          [metricId |-> "builtin:host.cpu.usage:avg",
                           data |-> [k \in 1..series |->
                                        Series(k, << Some(10), None, Some(20) >>)]]]] :
             metrics \in 0..MaxMetrics, series \in 0..MaxSeries}
    \cup {[totalCount |-> 0]}

\* the longest problems list and the largest total count of a response
MaxProblems == 15

\* the `problems` list of a response of n problems: open and closed ones,
\* every third without a title
ProblemSummaries(n) ==
    [k \in 1..n |->
        IF k % 3 = 0
        THEN [displayId |-> "P-" \o IntToStr(k), status |-> "CLOSED",
              severityLevel |-> "ERROR"]
        ELSE [displayId |-> "P-" \o IntToStr(k),
              status |-> IF k % 2 = 1 THEN "OPEN" ELSE "CLOSED",
              title |-> "High CPU", severityLevel |-> "PERFORMANCE"]]

\* the responses of GET /problems: a total count and a page of problems of
\* any length, and a response without totalCount
ProblemsResponses ==
    {[totalCount |-> t, problems |-> ProblemSummaries(n)] :
        t \in 0..MaxProblems, n \in 0..MaxProblems}
        \cup {[problems |-> ProblemSummaries(2)]}

\* GEMINI_MODEL
Models == {"gemini-1.5-flash", "gemini-1.5-pro", "gemini-2.0-flash"}

\* line 58
ModelsToTry(m) == <<m, "gemini-1.5-flash", "gemini-1.5-pro">>

-----------------------------------------------------------------------------
(* The texts.  Cross and Warning stand for the emoji of the source.         *)

Cross == "(x)"
Warning == "(!)"

HelpMessage == "# Dynatrace AI Agent"

RateLimitNotice ==
    Warning \o " AI analysis temporarily unavailable (rate limit). Dynatrace data shown above."

\* the except clause of each skill method: the string it returns
SkillErrorText(sk, ps, message) ==
    CASE sk = "list_problems" -> Cross \o " Error fetching problems: " \o message
      [] sk = "analyze_problem" ->
            Cross \o " Error analyzing problem " \o ps.problem_id[1] \o ": " \o message
      [] sk = "get_topology" -> Cross \o " Error fetching topology: " \o message
      [] sk = "query_metrics" -> Cross \o " Error querying metrics: " \o message
      [] sk = "get_deployments" -> Cross \o " Error fetching deployments: " \o message
      [] sk = "root_cause_analysis" ->
            Cross \o " Error performing root cause analysis: " \o message
      [] sk = "health_summary" -> Cross \o " Error generating health summary: " \o message
      [] sk = "query" -> Cross \o " Error processing query: " \o message

\* execute, line 313
ExecuteErrorText(message) == Cross \o " Error: " \o message

-----------------------------------------------------------------------------
(* The skills of dynatrace_agent.py.  A skill runs from one awaited call to *)
(* the next; pc names the call it is about to make.                         *)

\* dict.get(key, default)
Get(dict, key, default) == IF key \in DOMAIN dict THEN dict[key] ELSE default

\* a plausible bug: the inner try statements left out
HandlerOuterTryOnly(loc) == "skill"

\* a plausible bug: a failed releases lookup of the health summary is passed over
HandlerPassesHealthReleases(loc) ==
    IF loc \in {"ap_get_releases", "rca_query_metrics", "rca_get_releases", "q_query_metrics",
                "hs_get_releases"}
    THEN "pass"
    ELSE "skill"

\* a plausible bug: one statement of a skill left outside its try
HandlerWithoutOuterTry(loc) ==
    IF loc \in {"ap_get_releases", "rca_query_metrics", "rca_get_releases", "q_query_metrics"}
    THEN "pass"
    ELSE IF loc = "rca_get_problems" THEN "none" ELSE "skill"

\* the try statement around each statement of a skill: "pass" is an inner
\* `except: pass`, "skill" the `except Exception` clause of the skill method
Handler(loc) ==
    IF loc \in {"ap_get_releases", "rca_query_metrics", "rca_get_releases", "q_query_metrics"}
    THEN "pass"
    ELSE "skill"

\* execute, lines 264 and 312: the skill call is inside try/except Exception
ExecuteCatches == TRUE

\* execute, line 255
IsEmptyQuery(q) == q = "" \/ Strip(q) = ""

\* execute, line 258: where control goes once the help message is enqueued
AfterHelpFallsThrough == "parse"

AfterHelp == "done"

\* query, lines 551-581: the fetches in order, each with its keywords
QuerySteps ==
    << "q_get_problems", "q_get_releases", "q_get_services", "q_get_hosts", "q_query_metrics" >>

QueryKeywords ==
    << {"problem", "issue", "alert", "incident"},
       {"deploy", "release", "change"},
       {"service", "topology", "dependency"},
       {"host", "server", "infrastructure"},
       {"cpu", "memory", "performance", "metric"} >>

QueryContextKeys == << "problems", "releases", "services", "hosts", "cpu_metrics" >>

QueryRequests ==
    << GetProblemsRequest(None, None, "now-24h"),
       GetReleasesRequest(None, "now-7d"),
       GetEntitiesRequest("type(\"SERVICE\")", "+fromRelationships,+toRelationships"),
       GetEntitiesRequest("type(\"HOST\")", "+properties"),
       QueryMetricsRequest("builtin:host.cpu.usage:avg:names", None, "now-2h", "1h") >>

\* a plausible bug: the default snapshot fetched whatever was fetched before
QueryNextAlwaysDefault(question, k, ctx) ==
    LET later == {j \in (k + 1)..Len(QuerySteps) :
                     ContainsAny(Lower(question), QueryKeywords[j])}
    IN  IF later # {} THEN QuerySteps[Min(later)] ELSE "q_default_problems"

\* query: the statement after fetch number k (0: the start), with context
\* keys ctx: the next fetch whose keyword occurs, else line 584
QueryNext(question, k, ctx) ==
    LET later == {j \in (k + 1)..Len(QuerySteps) :
                     ContainsAny(Lower(question), QueryKeywords[j])}
    IN  IF later # {} THEN QuerySteps[Min(later)]
        ELSE IF ctx = {} THEN "q_default_problems"
        ELSE "ai_generate"

\* get_problem_details, line 140: the first request it makes
DetailsEntry(problem_id) == IF IsDisplayId(problem_id) THEN "gpd_search" ELSE "gpd_detail"

\* execute, lines 265-310: the first awaited call of the skill
SkillEntry(sk, ps) ==
    CASE sk = "list_problems" -> "lp_get_problems"
      [] sk = "analyze_problem" -> DetailsEntry(ps.problem_id[1])
      [] sk = "get_topology" -> "gt_get_entities"
      [] sk = "query_metrics" -> "qm_query_metrics"
      [] sk = "get_deployments" -> "gd_get_releases"
      [] sk = "root_cause_analysis" ->
            IF Get(ps, "problem_id", None) # None
            THEN DetailsEntry(ps.problem_id[1]) ELSE "rca_get_problems"
      [] sk = "health_summary" -> "hs_get_problems"
      [] OTHER -> QueryNext(Get(ps, "question", query), 0, {})

\* query_metrics, lines 327-340
MetricSelectors ==
    << <<"cpu", "builtin:host.cpu.usage:avg">>,
       <<"memory", "builtin:host.mem.usage:avg">>,
       <<"disk", "builtin:host.disk.usedPct:avg">>,
       <<"response_time", "builtin:service.response.time:avg">>,
       <<"error_rate", "builtin:service.errors.total.rate:avg">>,
       <<"throughput", "builtin:service.requestCount.total:avg">>,
       <<"availability", "builtin:host.availability:avg">>,
       <<"network", "builtin:host.net.nic.trafficIn:avg">> >>

MetricSelector(metric) ==
    LET hits == {k \in 1..Len(MetricSelectors) : MetricSelectors[k][1] = Lower(metric)}
    IN  IF hits = {} THEN metric ELSE MetricSelectors[Min(hits)][2]

\* a plausible bug: the finer resolution kept for windows under two hours only
ResolutionUnderTwoHours(time_range) == IF time_range = "1h" THEN "10m" ELSE "1h"

\* query_metrics, line 353
Resolution(time_range) == IF time_range \in {"1h", "2h"} THEN "10m" ELSE "1h"

\* the identifier of the affected entity of the problem records
EntityId == "HOST-1"

\* the status emoji of format_problem_list, as texts
RedDot == "(red)"
GreenDot == "(green)"

\* problems[:10]
ListLimit == 10

\* format_problem_list, lines 445-451: the line of one problem
ProblemLine(p) ==
    (IF Get(p, "status", "UNKNOWN") = "OPEN" THEN RedDot ELSE GreenDot)
        \o " **" \o Get(p, "displayId", "") \o "** - " \o Get(p, "title", "Unknown")
        \o " [" \o Get(p, "severityLevel", "") \o "]"

\* format_problem_list, lines 453-454
MoreProblems(total) ==
    IF total > ListLimit
    THEN << "\n... and " \o IntToStr(total - ListLimit) \o " more problems" >> ELSE << >>

\* a plausible bug: every problem of the list gets a line
FormatProblemListUnlimited(r) ==
    LET total == Get(r, "totalCount", 0)
        problems == Get(r, "problems", << >>)
    IN  IF total = 0 THEN "No problems found in the specified timeframe."
        ELSE Join(<< "# Dynatrace Problems (" \o IntToStr(total) \o " total)\n" >>
                     \o [k \in 1..Len(problems) |-> ProblemLine(problems[k])]
                     \o MoreProblems(total),
                  "\n")

\* a plausible bug: an empty problems list counts as no problem
FormatProblemListByLength(r) ==
    IF Get(r, "problems", << >>) = << >> THEN "No problems found in the specified timeframe."
    ELSE "# Dynatrace Problems (" \o IntToStr(Get(r, "totalCount", 0)) \o " total)\n"

\* format_problem_list
FormatProblemList(r) ==
    LET total == Get(r, "totalCount", 0)
        problems == Get(r, "problems", << >>)
        shown == IF Len(problems) < ListLimit THEN Len(problems) ELSE ListLimit
    IN  IF total = 0 THEN "No problems found in the specified timeframe."
        ELSE Join(<< "# Dynatrace Problems (" \o IntToStr(total) \o " total)\n" >>
                     \o [k \in 1..shown |-> ProblemLine(problems[k])]
                     \o MoreProblems(total),
                  "\n")

\* get_topology, lines 260-297, by its first line
FormatTopology(entity_type, r) ==
    IF r.totalCount = 0 THEN "No " \o entity_type \o " entities found matching criteria."
    ELSE "# Topology: " \o entity_type \o " (" \o IntToStr(r.totalCount) \o " total)"

\* f"{n:02d}" of strftime
TwoDigits(n) == IF n < 10 THEN "0" \o IntToStr(n) ELSE IntToStr(n)

\* f"{x:.2f}" of the quotient x = n / d of two naturals: the hundredths
\* nearest to x, the even one of two equally near (no quotient of a sum of
\* fewer than 8 whole numbers is that near a tie that the float differs)
Fixed2(n, d) ==
    LET q == (100 * n) \div d
        rem == (100 * n) % d
        hundredths == IF 2 * rem > d THEN q + 1
                      ELSE IF 2 * rem = d THEN q + (q % 2)
                      ELSE q
    IN  IntToStr(hundredths \div 100) \o "." \o TwoDigits(hundredths % 100)

\* datetime.fromtimestamp(ms / 1000).strftime("%H:%M:%S"), the process
\* running in UTC
ClockTime(ms) ==
    LET seconds == (ms \div 1000) % 86400
    IN  TwoDigits(seconds \div 3600) \o ":" \o TwoDigits((seconds % 3600) \div 60)
            \o ":" \o TwoDigits(seconds % 60)

\* sum(values)
RECURSIVE Sum(_)
Sum(values) == IF values = << >> THEN 0 ELSE Head(values) + Sum(Tail(values))

\* a plausible bug: null counted as 0
ValidValuesNullAsZero(values) == [k \in 1..Len(values) |-> OrElse(values[k], 0)]

\* format_metrics_data, line 519: [v for v in values if v is not None]
ValidValues(values) ==
    LET present == SelectSeq(values, LAMBDA v : v # None)
    IN  [k \in 1..Len(present) |-> present[k][1]]

\* format_metrics_data, lines 503-524: the lines of one series
SeriesLines(series) ==
    LET dimensions == Get(series, "dimensions", << >>)
        timestamps == Get(series, "timestamps", << >>)
        values == Get(series, "values", << >>)
        valid == ValidValues(values)
        numbers == {valid[k] : k \in 1..Len(valid)}
    IN  (IF dimensions # << >> THEN << "**Dimensions:** " \o Join(dimensions, ", ") >>
         ELSE << >>)
        \o (IF values # << >> /\ timestamps # << >>
            THEN (IF values[Len(values)] # None
                  THEN << "**Latest (" \o ClockTime(timestamps[Len(timestamps)]) \o "):** "
                              \o Fixed2(values[Len(values)][1], 1) >>
                  ELSE << >>)
                 \o (IF valid # << >>
                     THEN << "**Range:** " \o Fixed2(Min(numbers), 1) \o " - "
                                 \o Fixed2(Max(numbers), 1),
                             "**Average:** " \o Fixed2(Sum(valid), Len(valid)) >>
                     ELSE << >>)
            ELSE << >>)
        \o << "" >>

\* data[:5]
SeriesLimit == 5

\* the lines of the first n of a list of series
RECURSIVE SeriesListLines(_, _)
SeriesListLines(data, n) ==
    IF data = << >> \/ n = 0 THEN << >>
    ELSE SeriesLines(Head(data)) \o SeriesListLines(Tail(data), n - 1)

\* a plausible bug: every series of a metric is rendered
RECURSIVE MetricsLinesUnlimited(_, _)
MetricsLinesUnlimited(results, n) ==
    IF results = << >> THEN << >>
    ELSE << "## " \o Get(Head(results), "metricId", "Unknown") \o "\n" >>
             \o SeriesListLines(Get(Head(results), "data", << >>),
                                Len(Get(Head(results), "data", << >>)))
             \o MetricsLinesUnlimited(Tail(results), n)

\* format_metrics_data, lines 496-524: the lines of the metrics, each with
\* n series at most
RECURSIVE MetricsLines(_, _)
MetricsLines(results, n) ==
    IF results = << >> THEN << >>
    ELSE << "## " \o Get(Head(results), "metricId", "Unknown") \o "\n" >>
             \o SeriesListLines(Get(Head(results), "data", << >>), n)
             \o MetricsLines(Tail(results), n)

\* format_metrics_data
FormatMetricsData(r) ==
    IF Get(r, "result", << >>) = << >> THEN "No metric data found."
    ELSE Join(<< "# Metrics Data\n" >> \o MetricsLines(r.result, SeriesLimit), "\n")

\* get_deployments, lines 390-420, by its first line
FormatDeployments(r) ==
    IF r.totalCount = 0 THEN "No deployments found in the specified timeframe."
    ELSE "# Recent Deployments (" \o IntToStr(r.totalCount) \o " total)"

\* format_problem, lines 391-404: the names of the affected entities of a
\* record (no entity of the model has a name or displayName)
AffectedNames(rec) ==
    CASE rec.affected = "none" -> << >>
      [] rec.affected = "id" -> << EntityId >>
      [] rec.affected = "no_id" -> << "Unknown" >>
      [] rec.affected = "string" -> << EntityId >>

\* format_problem, by its first line and its list of affected entities
FormatProblem(rec) ==
    Join(<< "**Problem**",
            "**Affected Entities (" \o IntToStr(Len(AffectedNames(rec))) \o "):**" >>
            \o (IF AffectedNames(rec) = << >> THEN << "  - None identified" >>
                ELSE [k \in 1..Len(AffectedNames(rec)) |-> "  - " \o AffectedNames(rec)[k]]),
         "\n")

\* get_health_summary, lines 622-656, by its status lines
FormatHealth(open, releases) ==
    << "# Environment Health Summary",
       "**Open Problems:** " \o IntToStr(open.totalCount),
       "**Recent Deployments (7d):** " \o IntToStr(releases.totalCount) >>

\* len(json.dumps(...)) of the data a skill has fetched for its prompt
SerializedSizes == {120, 4001}

\* root_cause_analysis, line 491, and query, line 594: [:4000]
ContextBudget == 4000

\* the length of the serialized data as the prompt of skill sk embeds it:
\* cut to the budget by root_cause_analysis and query, whole in
\* analyze_problem (line 201, evidence_list[:3]) and get_health_summary
\* (line 661, severity_counts)
EmbeddedLength(sk, n) ==
    IF sk \in {"root_cause_analysis", "query"} THEN Min({n, ContextBudget}) ELSE n

\* a plausible bug: every failure of a model call is retried
IsAnyFailure(message) == TRUE

\* _ai_analyze, line 69
IsRateLimit(message) == Contains(message, "429") \/ Contains(message, "RESOURCE_EXHAUSTED")

\* _ai_analyze, line 77
AiErrorText(message) ==
    "AI analysis error: " \o SubSeq(message, 1, IF Len(message) < 100 THEN Len(message) ELSE 100)

\* what the skill returns once _ai_analyze has returned text
WithAnalysis(sk, out, text) ==
    CASE sk = "analyze_problem" -> Join(out \o <<"## AI Analysis", text>>, "\n")
      [] sk = "health_summary" -> Join(out \o <<"## AI Summary", text>>, "\n")
      [] OTHER -> text

-----------------------------------------------------------------------------
(* The steps of a request.                                                  *)

Send(request) == requests' = Append(requests, request)

\* the skill goes on to its next awaited call
Proceed(loc) == pc' = loc /\ UNCHANGED <<response, raised>>

\* the skill returns text to execute, which goes on to line 315
Return(text) == pc' = "enqueue" /\ response' = Some(text) /\ UNCHANGED raised

\* an exception with the given message is raised at statement loc of the
\* skill; after an inner `except: pass` the skill goes on at passTo
Raise(loc, message, passTo) ==
    IF Handler(loc) = "pass" THEN Proceed(passTo)
    ELSE IF Handler(loc) = "skill" THEN Return(SkillErrorText(skill, params, message))
    ELSE IF ExecuteCatches
    THEN /\ pc' = "enqueue"
         /\ response' = Some(ExecuteErrorText(message))
         /\ raised' = raised \cup {"skill"}
    ELSE /\ pc' = "done"
         /\ response' = response
         /\ raised' = raised \cup {"skill", "execute"}

\* a call of _make_request at statement loc fails
Fails(loc, passTo) ==
    \E message \in HttpErrors : Raise(loc, message, passTo) /\ faults' = faults \cup {loc}

\* execute, lines 251-258
ExecuteStart ==
    /\ pc = "start"
    /\ IF IsEmptyQuery(query)
       THEN events' = Append(events, HelpMessage) /\ pc' = AfterHelp
       ELSE events' = events /\ pc' = "parse"
    /\ UNCHANGED <<env, boot, reply, query, model, skill, params, timeRange,
                   lookup, problem, context, output, aiModel, aiCalls,
                   response, raised, faults, requests>>

\* execute, lines 260-310: classification and dispatch
ExecuteParseIntent ==
    /\ pc = "parse"
    /\ LET intent == ParseIntent(query)
       IN  /\ skill' = intent.skill
           /\ params' = intent.params
           /\ pc' = SkillEntry(intent.skill, intent.params)
    /\ UNCHANGED <<env, boot, reply, query, model, timeRange, lookup, problem,
                   context, output, aiModel, aiCalls, response, raised,
                   faults, events, requests>>

\* list_problems
ListProblems ==
    /\ pc = "lp_get_problems"
    /\ Send(GetProblemsRequest(Get(params, "status", None), Get(params, "severity", None),
                               "now-" \o Get(params, "time_range", "24h")))
    /\ \/ \E r \in ProblemsResponses :
            Return(FormatProblemList(r)) /\ reply' = Some(r) /\ faults' = faults
       \/ Fails("lp_get_problems", "lp_get_problems") /\ reply' = reply
    /\ UNCHANGED <<env, boot, query, model, skill, params, timeRange, lookup,
                   problem, context, output, aiModel, aiCalls, events>>

\* get_problem_details, lines 140-160: the search by display id
GetProblemDetailsSearch ==
    /\ pc = "gpd_search"
    /\ LET display_id == Upper(params.problem_id[1])
       IN  /\ Send(SearchRequest(display_id))
           /\ \/ \E problems \in SearchResults :
                    /\ lookup' = Some(problems)
                    /\ faults' = faults
                    /\ IF Lookup(display_id, problems).raises
                       THEN Raise("gpd_search", Lookup(display_id, problems).message, "gpd_search")
                       ELSE Proceed("gpd_detail")
              \/ Fails("gpd_search", "gpd_search") /\ lookup' = lookup
    /\ UNCHANGED <<env, boot, reply, query, model, skill, params, timeRange,
                   problem, context, output, aiModel, aiCalls, events>>

\* get_problem_details, lines 163-164, and what analyze_problem (lines
\* 135-170) and root_cause_analysis (lines 450-456) do with the record up to
\* their next awaited call
GetProblemDetailsFetch ==
    /\ pc = "gpd_detail"
    /\ LET problem_id == IF lookup = None THEN params.problem_id[1]
                         ELSE Lookup(Upper(params.problem_id[1]), lookup[1]).problem_id
       IN  Send(DetailRequest(problem_id))
    /\ \/ \E rec \in ProblemRecords :
            /\ problem' = Some(rec)
            /\ faults' = faults
            /\ output' = IF skill = "analyze_problem" THEN <<FormatProblem(rec)>> ELSE output
            /\ context' = IF skill = "root_cause_analysis" THEN {"problem"} ELSE context
            /\ IF rec.affected = "string"
               THEN Raise("entity_id", "'str' object has no attribute 'get'", "entity_id")
               ELSE IF skill = "analyze_problem"
               THEN Proceed(IF rec.affected = "id" THEN "ap_get_releases" ELSE "ai_generate")
               ELSE Proceed(IF rec.affected = "id" THEN "rca_query_metrics"
                            ELSE "rca_get_releases")
       \/ Fails("gpd_detail", "gpd_detail") /\ UNCHANGED <<problem, output, context>>
    /\ UNCHANGED <<env, boot, reply, query, model, skill, params, timeRange,
                   lookup, aiModel, aiCalls, events>>

\* analyze_problem, lines 171-190: the releases of the affected entities
AnalyzeGetReleases ==
    /\ pc = "ap_get_releases"
    /\ Send(GetReleasesRequest(Some("entityId(\"" \o EntityId \o "\")"), "now-7d"))
    /\ \/ \E r \in ListResponses :
            /\ output' = IF r.totalCount > 0
                         THEN output \o <<"## Recent Deployments (Potential Correlation)">>
                         ELSE output
            /\ Proceed("ai_generate")
            /\ faults' = faults
       \/ Fails("ap_get_releases", "ai_generate") /\ output' = output
    /\ UNCHANGED <<env, boot, reply, query, model, skill, params, timeRange,
                   lookup, problem, context, aiModel, aiCalls, events>>

\* get_topology
GetTopology ==
    /\ pc = "gt_get_entities"
    /\ LET entity_type == Get(params, "entity_type", "SERVICE")
       IN  /\ Send(GetEntitiesRequest("type(\"" \o entity_type \o "\")",
                                      "+fromRelationships,+toRelationships,+properties,+tags"))
           /\ \/ \E r \in ListResponses : Return(FormatTopology(entity_type, r)) /\ faults' = faults
              \/ Fails("gt_get_entities", "gt_get_entities")
    /\ UNCHANGED <<env, boot, reply, query, model, skill, params, timeRange,
                   lookup, problem, context, output, aiModel, aiCalls,
                   events>>

\* query_metrics
QueryMetrics ==
    /\ pc = "qm_query_metrics"
    /\ LET time_range == Get(params, "time_range", "2h")
           entity_type == Get(params, "entity_type", None)
       IN  Send(QueryMetricsRequest(MetricSelector(Get(params, "metric", "cpu")),
                                    IF entity_type = None THEN None
                                    ELSE Some("type(\"" \o entity_type[1] \o "\")"),
                                    "now-" \o time_range, Resolution(time_range)))
    /\ \/ \E r \in MetricsResponses :
            Return(FormatMetricsData(r)) /\ reply' = Some(r) /\ faults' = faults
       \/ Fails("qm_query_metrics", "qm_query_metrics") /\ reply' = reply
    /\ UNCHANGED <<env, boot, query, model, skill, params, timeRange, lookup,
                   problem, context, output, aiModel, aiCalls, events>>

\* get_deployments
GetDeployments ==
    /\ pc = "gd_get_releases"
    /\ Send(GetReleasesRequest(None, "now-" \o Get(params, "time_range", "7d")))
    /\ \/ \E r \in ListResponses : Return(FormatDeployments(r)) /\ faults' = faults
       \/ Fails("gd_get_releases", "gd_get_releases")
    /\ UNCHANGED <<env, boot, reply, query, model, skill, params, timeRange,
                   lookup, problem, context, output, aiModel, aiCalls,
                   events>>

\* root_cause_analysis, lines 457-466: the CPU metrics of the affected entity
RootCauseQueryMetrics ==
    /\ pc = "rca_query_metrics"
    /\ Send(QueryMetricsRequest("builtin:host.cpu.usage:avg",
                                Some("entityId(\"" \o EntityId \o "\")"), "now-6h", "1h"))
    /\ \/ /\ context' = context \cup {"cpu_metrics"}
          /\ Proceed("rca_get_releases")
          /\ faults' = faults
       \/ Fails("rca_query_metrics", "rca_get_releases") /\ context' = context
    /\ UNCHANGED <<env, boot, reply, query, model, skill, params, timeRange,
                   lookup, problem, output, aiModel, aiCalls, events>>

\* root_cause_analysis, lines 469-473: the recent releases
RootCauseGetReleases ==
    /\ pc = "rca_get_releases"
    /\ Send(GetReleasesRequest(None, "now-7d"))
    /\ \/ /\ context' = context \cup {"recent_releases"}
          /\ Proceed("ai_generate")
          /\ faults' = faults
       \/ Fails("rca_get_releases", "ai_generate") /\ context' = context
    /\ UNCHANGED <<env, boot, reply, query, model, skill, params, timeRange,
                   lookup, problem, output, aiModel, aiCalls, events>>

\* root_cause_analysis, lines 475-481: no problem id, the open problems
RootCauseGetProblems ==
    /\ pc = "rca_get_problems"
    /\ Send(GetProblemsRequest(Some("OPEN"), None, "now-24h"))
    /\ \/ /\ context' = {"open_problems"}
          /\ Proceed("ai_generate")
          /\ faults' = faults
       \/ Fails("rca_get_problems", "rca_get_problems") /\ context' = context
    /\ UNCHANGED <<env, boot, reply, query, model, skill, params, timeRange,
                   lookup, problem, output, aiModel, aiCalls, events>>

\* get_health_summary, line 619
HealthGetProblems ==
    /\ pc = "hs_get_problems"
    /\ Send(GetProblemsRequest(Some("OPEN"), None, "now-24h"))
    /\ \/ \E r \in ListResponses :
            /\ output' = <<r>>
            /\ Proceed("hs_get_releases")
            /\ faults' = faults
       \/ Fails("hs_get_problems", "hs_get_problems") /\ output' = output
    /\ UNCHANGED <<env, boot, reply, query, model, skill, params, timeRange,
                   lookup, problem, context, aiModel, aiCalls, events>>

\* get_health_summary, lines 620-656
HealthGetReleases ==
    /\ pc = "hs_get_releases"
    /\ Send(GetReleasesRequest(None, "now-7d"))
    /\ \/ \E r \in ListResponses :
            /\ output' = FormatHealth(output[1], r)
            /\ Proceed("ai_generate")
            /\ faults' = faults
       \/ Fails("hs_get_releases", "hs_get_releases") /\ output' = output
    /\ UNCHANGED <<env, boot, reply, query, model, skill, params, timeRange,
                   lookup, problem, context, aiModel, aiCalls, events>>

\* query, lines 551-581: fetch number k of the keyword-selected fetches
QueryFetch ==
    \E k \in 1..Len(QuerySteps) :
        /\ pc = QuerySteps[k]
        /\ Send(QueryRequests[k])
        /\ LET question == Get(params, "question", query)
           IN  \/ /\ context' = context \cup {QueryContextKeys[k]}
                  /\ Proceed(QueryNext(question, k, context \cup {QueryContextKeys[k]}))
                  /\ faults' = faults
               \/ /\ Fails(QuerySteps[k], QueryNext(question, k, context))
                  /\ context' = context
        /\ UNCHANGED <<env, boot, reply, query, model, skill, params,
                       timeRange, lookup, problem, output, aiModel, aiCalls,
                       events>>

\* query, lines 584-586: nothing fetched, the default problems snapshot
QueryDefaultProblems ==
    /\ pc = "q_default_problems"
    /\ Send(GetProblemsRequest(None, None, "now-24h"))
    /\ \/ /\ context' = {"recent_problems"}
          /\ Proceed("ai_generate")
          /\ faults' = faults
       \/ Fails("q_default_problems", "q_default_problems") /\ context' = context
    /\ UNCHANGED <<env, boot, reply, query, model, skill, params, timeRange,
                   lookup, problem, output, aiModel, aiCalls, events>>

\* _ai_analyze, lines 60-77: one turn of the loop over models_to_try
AiGenerate ==
    /\ pc = "ai_generate"
    /\ \E n \in IF aiCalls = << >> THEN SerializedSizes ELSE {aiCalls[1].data_len} :
       LET models_to_try == ModelsToTry(model)
           current == models_to_try[aiModel]
           call == [model |-> current, data_len |-> n,
                    context_len |-> EmbeddedLength(skill, n)]
       IN  \/ /\ aiCalls' = Append(aiCalls, call @@ [outcome |-> "ok"])
              /\ Return(WithAnalysis(skill, output, Strip(ModelText)))
              /\ UNCHANGED <<aiModel, faults>>
           \/ \E message \in ModelErrors :
                 /\ aiCalls' = Append(aiCalls, call @@ [outcome |-> message])
                 /\ faults' = faults \cup {"ai_generate"}
                 /\ IF IsRateLimit(message)
                    THEN IF current # models_to_try[Len(models_to_try)]
                         THEN aiModel' = aiModel + 1 /\ Proceed("ai_generate")
                         ELSE /\ aiModel' = aiModel
                              /\ Return(WithAnalysis(skill, output, RateLimitNotice))
                    ELSE /\ aiModel' = aiModel
                         /\ Return(WithAnalysis(skill, output, AiErrorText(message)))
    /\ UNCHANGED <<env, boot, reply, query, model, skill, params, timeRange,
                   lookup, problem, context, output, events, requests>>

\* execute, line 315
ExecuteEnqueue ==
    /\ pc = "enqueue"
    /\ events' = Append(events, response[1])
    /\ pc' = "done"
    /\ UNCHANGED <<env, boot, reply, query, model, skill, params, timeRange,
                   lookup, problem, context, output, aiModel, aiCalls,
                   response, raised, faults, requests>>

-----------------------------------------------------------------------------
(* Startup: main of main.py, from the environment variables to the running  *)
(* server.                                                                  *)

\* os.getenv(var, default)
Getenv(e, var, default) == IF e[var] = None THEN default ELSE e[var][1]

\* `not os.getenv(var)`: the variable is unset or empty
NotSet(e, var) == e[var] = None \/ e[var][1] = ""

\* validate_environment, required_vars
RequiredVars == <<"DYNATRACE_URL", "DYNATRACE_API_TOKEN", "GEMINI_API_KEY">>

\* str.rstrip("/")
RECURSIVE RStripSlash(_)
RStripSlash(s) ==
    IF s # "" /\ Ch(s, Len(s)) = "/" THEN RStripSlash(SubSeq(s, 1, Len(s) - 1)) ELSE s

\* int(text) succeeds: a run of digits (the texts of the model carry no
\* sign, blank or underscore)
IsIntLiteral(s) == s # "" /\ \A i \in 1..Len(s) : IsDigit(Ch(s, i))

EnvironmentUrl == "https://abc.live.dynatrace.com"

\* the environments a process is started in: each variable unset, empty or
\* set; DYNATRACE_URL also with a trailing slash, with the API path, or
\* made of a slash only; PORT also with a text that is no number
Environments ==
    [ DYNATRACE_URL : {None, Some(""), Some("/"), Some(EnvironmentUrl),
                       Some(EnvironmentUrl \o "/"), Some(EnvironmentUrl \o "/api/v2")},
      DYNATRACE_API_TOKEN : {None, Some(""), Some("dt0c01.token")},
      GEMINI_API_KEY : {None, Some(""), Some("key")},
      GEMINI_MODEL : {None, Some("gemini-2.0-flash")},
      PORT : {None, Some(""), Some("8080"), Some("http")} ]

\* DynatraceClient.__init__, lines 31 and 40-41: the base URL of the client
BaseUrl(e) ==
    LET base == RStripSlash(Getenv(e, "DYNATRACE_URL", ""))
    IN  IF Len(base) >= 7 /\ SubSeq(base, Len(base) - 6, Len(base)) = "/api/v2"
        THEN base ELSE base \o "/api/v2"

\* a plausible bug: validation that passes when any variable is present
ValidatesAnyPresent(e) == \E k \in 1..Len(RequiredVars) : ~NotSet(e, RequiredVars[k])

\* validate_environment, lines 260-270
ValidateEnvironment(e) == \A k \in 1..Len(RequiredVars) : ~NotSet(e, RequiredVars[k])

\* the running server: main has reached uvicorn.run
Serving == [at |-> "serving", base_url |-> Some(EnvironmentUrl \o "/api/v2")]

\* an environment of a running server whose agent uses model m
ServingEnvironment(m) ==
    [ DYNATRACE_URL |-> Some(EnvironmentUrl), DYNATRACE_API_TOKEN |-> Some("dt0c01.token"),
      GEMINI_API_KEY |-> Some("key"), GEMINI_MODEL |-> Some(m), PORT |-> None ]

\* main, lines 301-310: the parser is built, PORT is converted by int()
MainParseArgs ==
    /\ boot.at = "main"
    /\ boot' = [boot EXCEPT !.at = IF env.PORT = None \/ IsIntLiteral(env.PORT[1])
                                   THEN "validate" ELSE "main_error"]
    /\ UNCHANGED <<env, reply, query, model, pc, skill, params, timeRange, lookup, problem,
                   context, output, aiModel, aiCalls, response, raised, faults, events,
                   requests>>

\* main, lines 312-313: exit(1) when validate_environment returns False
MainValidate ==
    /\ boot.at = "validate"
    /\ boot' = [boot EXCEPT !.at = IF ValidateEnvironment(env) THEN "create_app" ELSE "exit"]
    /\ UNCHANGED <<env, reply, query, model, pc, skill, params, timeRange, lookup, problem,
                   context, output, aiModel, aiCalls, response, raised, faults, events,
                   requests>>

\* create_app, line 195: DynatraceAgentExecutor() builds DynatraceAgent, which
\* builds DynatraceClient; a ValueError of either constructor ends main
CreateApp ==
    /\ boot.at = "create_app"
    /\ IF \/ RStripSlash(Getenv(env, "DYNATRACE_URL", "")) = ""
          \/ Getenv(env, "DYNATRACE_API_TOKEN", "") = ""
          \/ NotSet(env, "GEMINI_API_KEY")
       THEN boot' = [boot EXCEPT !.at = "create_app_error"] /\ model' = model
       ELSE /\ boot' = [at |-> "run", base_url |-> Some(BaseUrl(env))]
            /\ model' = Getenv(env, "GEMINI_MODEL", "gemini-1.5-flash")
    /\ UNCHANGED <<env, reply, query, pc, skill, params, timeRange, lookup, problem,
                   context, output, aiModel, aiCalls, response, raised, faults, events,
                   requests>>

\* main, lines 338-343: uvicorn.run serves the application
UvicornRun ==
    /\ boot.at = "run"
    /\ boot' = [boot EXCEPT !.at = "serving"]
    /\ UNCHANGED <<env, reply, query, model, pc, skill, params, timeRange, lookup, problem,
                   context, output, aiModel, aiCalls, response, raised, faults, events,
                   requests>>

InitStartup ==
    /\ env \in Environments
    /\ boot = [at |-> "main", base_url |-> None]
    /\ reply = None
    /\ query = ""
    /\ model = ""
    /\ pc = "start"
    /\ skill = ""
    /\ params = << >>
    /\ timeRange = None
    /\ lookup = None
    /\ problem = None
    /\ context = {}
    /\ output = << >>
    /\ aiModel = 1
    /\ aiCalls = << >>
    /\ response = None
    /\ raised = {}
    /\ faults = {}
    /\ events = << >>
    /\ requests = << >>

NextStartup == MainParseArgs \/ MainValidate \/ CreateApp \/ UvicornRun

SpecStartup == InitStartup /\ [][NextStartup]_vars

-----------------------------------------------------------------------------
(* The requests of the model: the phrases of the agent card and of the help *)
(* message, the messages of test_client.py, and requests with each form of  *)
(* problem identifier.                                                      *)

ExecuteQueries ==
    { "", "  ",
      "Environment health status",
      "Show me open problems from last 24 hours",
      "Show service topology",
      "Is there anything I should worry about?",
      "Investigate P-12345",
      "what about problem 42",
      "explain SVC-1_123V2",
      "Root cause analysis for p-99999",
      "Why is the service slow?",
      "rca -8123456_1699V2",
      "Show CPU usage for last 2 hours",
      "cpu usage last 1 hours",
      "disk usage last 01 hours",
      "memory usage past 3 hours",
      "network traffic last 2 days",
      "What was deployed this week?",
      "should I check the hosts",
      "who changed production" }

\* requests made of the keywords DynatraceAgent.query looks for: each keyword
\* alone, and questions that name a service and a host
KeywordQueries ==
    UNION {QueryKeywords[j] : j \in 1..Len(QueryKeywords)}
        \cup {"the checkout service on the new host", "a dependency of this server"}

Init ==
    /\ query \in ExecuteQueries \cup KeywordQueries
    /\ model \in Models
    /\ pc = "start"
    /\ skill = ""
    /\ params = << >>
    /\ timeRange = None
    /\ lookup = None
    /\ problem = None
    /\ context = {}
    /\ output = << >>
    /\ aiModel = 1
    /\ aiCalls = << >>
    /\ response = None
    /\ raised = {}
    /\ faults = {}
    /\ events = << >>
    /\ requests = << >>
    /\ env = ServingEnvironment(model)
    /\ boot = Serving
    /\ reply = None

Next ==
    \/ ExecuteStart
    \/ ExecuteParseIntent
    \/ ListProblems
    \/ GetProblemDetailsSearch
    \/ GetProblemDetailsFetch
    \/ AnalyzeGetReleases
    \/ GetTopology
    \/ QueryMetrics
    \/ GetDeployments
    \/ RootCauseQueryMetrics
    \/ RootCauseGetReleases
    \/ RootCauseGetProblems
    \/ HealthGetProblems
    \/ HealthGetReleases
    \/ QueryFetch
    \/ QueryDefaultProblems
    \/ AiGenerate
    \/ ExecuteEnqueue

Spec == Init /\ [][Next]_vars

-----------------------------------------------------------------------------
(* A request that is cancelled while execute handles it: cancel runs        *)
(* whenever execute is suspended in an await, or before or after it.        *)

CancelMessage == "Task cancelled."

\* cancel, lines 317-325, called once for the request
Cancel ==
    /\ \A k \in 1..Len(events) : events[k] # CancelMessage
    /\ events' = Append(events, CancelMessage)
    /\ UNCHANGED <<env, boot, reply, query, model, pc, skill, params,
                   timeRange, lookup, problem, context, output, aiModel,
                   aiCalls, response, raised, faults, requests>>

NextCancel == Next \/ Cancel

SpecCancel == Init /\ [][NextCancel]_vars

-----------------------------------------------------------------------------
(* The skills with inputs of their own: besides the requests that come      *)
(* through the classifier, DynatraceAgent.query is called with questions     *)
(* that name any of its keyword groups.                                     *)

SkillQuestions ==
    { "what is going on", "cpu", "memory metric of the server",
      "service and host", "is the incident linked to a release",
      "problem after the deploy of a service on this host: cpu?" }

\* execute, line 308: self.agent.query(question=...)
InitQuerySkill ==
    /\ query \in SkillQuestions
    /\ model \in Models
    /\ skill = "query"
    /\ params = [question |-> query]
    /\ pc = SkillEntry("query", [question |-> query])
    /\ timeRange = None
    /\ lookup = None
    /\ problem = None
    /\ context = {}
    /\ output = << >>
    /\ aiModel = 1
    /\ aiCalls = << >>
    /\ response = None
    /\ raised = {}
    /\ faults = {}
    /\ events = << >>
    /\ requests = << >>
    /\ env = ServingEnvironment(model)
    /\ boot = Serving
    /\ reply = None

SpecSkills == (Init \/ InitQuerySkill) /\ [][Next]_vars

-----------------------------------------------------------------------------
(* The classifier on its own: _parse_intent and _extract_time_range applied *)
(* to the queries of a bounded family.                                      *)

\* the largest number written in a time expression of the family
MaxNumber == 3

Phrase(a, b) == IF a = "" THEN b ELSE IF b = "" THEN a ELSE a \o " " \o b

\* main.py, get_agent_card, and _get_help_message: each example with the id
\* of the skill it is listed under
CardExamples ==
    { <<"Show me open problems", "list_problems">>,
      <<"List critical alerts from last 24 hours", "list_problems">>,
      <<"Any performance issues today?", "list_problems">>,
      <<"Analyze problem P-12345", "analyze_problem">>,
      <<"Investigate P-12345", "analyze_problem">>,
      <<"What's wrong with P-12345?", "analyze_problem">>,
      <<"Root cause analysis for P-12345", "root_cause_analysis">>,
      <<"Why is the service slow?", "root_cause_analysis">>,
      <<"What caused the database latency?", "root_cause_analysis">>,
      <<"What caused the outage?", "root_cause_analysis">>,
      <<"Show service topology", "get_topology">>,
      <<"List all hosts", "get_topology">>,
      <<"Service dependencies for payment-service", "get_topology">>,
      <<"Service dependencies", "get_topology">>,
      <<"Show CPU usage for last 2 hours", "query_metrics">>,
      <<"Show CPU usage", "query_metrics">>,
      <<"Memory metrics for production hosts", "query_metrics">>,
      <<"Memory metrics for last 2 hours", "query_metrics">>,
      <<"Response time performance", "query_metrics">>,
      <<"Recent deployments", "get_deployments">>,
      <<"What was deployed this week?", "get_deployments">>,
      <<"Show releases for payment-service", "get_deployments">>,
      <<"Show releases", "get_deployments">>,
      <<"Environment health status", "health_summary">>,
      <<"Give me an overview", "health_summary">>,
      <<"How's production looking?", "health_summary">>,
      <<"How's everything looking?", "health_summary">>,
      <<"Is there anything I should worry about?", "query">>,
      <<"What's happening with production?", "query">>,
      <<"Should I be concerned about the database?", "query">> }

Leads ==
    { "", "investigate", "Investigate", "ANALYZE", "details of", "explain", "tell me about",
      "what caused", "Why is", "root cause analysis for", "RCA", "list", "show me" }

Subjects ==
    { "P-12345", "p-7", "problem 42", "Problem ID #9", "SVC-1_123V2", "xP-3", "P-1a",
      "P-5 and problem 6", "problem 6 and P-5", "the problem", "this incident",
      "open alerts", "all hosts", "cpu usage", "deployments", "health" }

Numbers == {IntToStr(n) : n \in 1..MaxNumber} \cup {"24", "03"}

\* one expression for each pattern of _extract_time_range, with number n
TimeExpressions(n) ==
    { "last " \o n \o " hours", "last " \o n \o " days", "Last " \o n \o " weeks",
      "past " \o n \o " hours", "past " \o n \o "d", n \o " hours ago", n \o " day ago" }

TimePhrases ==
    {""} \cup UNION {TimeExpressions(n) : n \in Numbers} \cup {"today", "this week", "last week"}

\* two time expressions in the same query, in either textual order
TimePairs == {Phrase(a, b) : a, b \in TimeExpressions("2") \cup {"today", "this week"}}

StatusWords == {"", "open", "closed", "closed or open"}

SeverityWords ==
    { "", "critical", "availability", "error", "performance", "slow",
      "slow error", "error critical", "slow availability" }

Queries ==
    {e[1] : e \in CardExamples}
    \cup {"Show me open problems from last 24 hours", "investigate the outage"}
    \cup {Phrase(a, b) : a \in Leads \ {""}, b \in Subjects}
    \cup {Phrase(a, b) : a \in {"problems", "cpu", "releases", "hello"}, b \in TimePhrases}
    \cup {Phrase("alerts", b) : b \in TimePairs}
    \cup {Phrase(Phrase(a, b), Phrase("issues", c)) :
              a \in StatusWords, b \in SeverityWords, c \in {"", "last 2 hours"}}

InitClassify ==
    /\ query \in Queries
    /\ model = "gemini-1.5-flash"
    /\ pc = "classify"
    /\ skill = ""
    /\ params = << >>
    /\ timeRange = None
    /\ lookup = None
    /\ problem = None
    /\ context = {}
    /\ output = << >>
    /\ aiModel = 1
    /\ aiCalls = << >>
    /\ response = None
    /\ raised = {}
    /\ faults = {}
    /\ events = << >>
    /\ requests = << >>
    /\ env = ServingEnvironment(model)
    /\ boot = Serving
    /\ reply = None

\* skill, params = self._parse_intent(query)
CallParseIntent ==
    /\ pc = "classify"
    /\ LET intent == ParseIntent(query)
       IN  skill' = intent.skill /\ params' = intent.params
    /\ pc' = "classified"
    /\ UNCHANGED <<env, boot, reply, query, model, timeRange, lookup, problem,
                   context, output, aiModel, aiCalls, response, raised,
                   faults, events, requests>>

\* self._extract_time_range(query)
CallExtractTimeRange ==
    /\ timeRange = None
    /\ pc \in {"classify", "classified"}
    /\ timeRange' = Some(ExtractTimeRange(query))
    /\ UNCHANGED <<env, boot, reply, query, model, pc, skill, params, lookup,
                   problem, context, output, aiModel, aiCalls, response,
                   raised, faults, events, requests>>

NextClassify == CallParseIntent \/ CallExtractTimeRange

SpecClassify == InitClassify /\ [][NextClassify]_vars

-----------------------------------------------------------------------------
(* Properties of a request.                                                 *)

\* C1: whatever a call of the monitoring API or of the language model
\* raises, no exception leaves a skill method or execute, and once the skill
\* is over it has handed a string to execute.
C1_NoExceptionEscapes ==
    /\ raised = {}
    /\ pc \in {"enqueue", "done"} /\ skill # "" => response # None

\* a request in which a gateway call and a model call failed and that ended
C1_Witness ==
    /\ pc = "done"
    /\ {"rca_get_releases", "ai_generate"} \subseteq faults
    /\ raised = {}
    /\ response # None

DetailRequests == {k \in 1..Len(requests) : StartsWith(requests[k].endpoint, "/problems/")}
RequestedId(k) == Suffix(requests[k].endpoint, Len("/problems/") + 1)

\* C10: with an identifier that starts with "P-" in any letter case the
\* first request is the search by display id; when the search finds no
\* problem, or one without problemId, the outcome is the not-found error and
\* no detail request is made; a detail request never carries a display id.
C10_DetailOnlyWithInternalId ==
    /\ \A k \in DetailRequests : ~ StartsWith(Upper(RequestedId(k)), "P-")
    /\ skill \in {"analyze_problem", "root_cause_analysis"}
         /\ Get(params, "problem_id", None) # None
         /\ Ch(params.problem_id[1], 1) \in {"P", "p"} /\ Ch(params.problem_id[1], 2) = "-"
         /\ requests # << >>
       => /\ requests[1] = SearchRequest(Upper(params.problem_id[1]))
          /\ \A k \in DetailRequests : k > 1
    /\ lookup # None /\ lookup[1] = << >>
       => /\ DetailRequests = {}
          /\ response # None /\ Contains(response[1], "not found")
    /\ lookup # None /\ lookup[1] # << >> /\ lookup[1][1].problemId = None
       => /\ DetailRequests = {}
          /\ response # None /\ Contains(response[1], "Could not resolve internal ID")
    /\ lookup # None /\ DetailRequests # {}
       => \A k \in DetailRequests : Some(RequestedId(k)) = lookup[1][1].problemId

\* a search by display id that found nothing, reported and not followed up
C10_Witness ==
    /\ pc = "done"
    /\ lookup = Some(<< >>)
    /\ requests = << SearchRequest("P-12345") >>
    /\ Contains(events[1], "Problem P-12345 not found")

-----------------------------------------------------------------------------
(* Properties of the classifier.                                            *)

ClaimAnalysisVerbs == {"analyze", "detail", "investigate", "what", "explain", "tell me about"}
ClaimRootCausePhrases == {"root cause", "rca", "why is", "what caused", "investigate"}
ClaimProblemVocabulary == {"problem", "alert", "issue", "incident"}

\* w is "P-" followed by digits, in either letter case
IsDisplayIdText(w) ==
    /\ Len(w) >= 3
    /\ Ch(w, 1) \in {"P", "p"}
    /\ Ch(w, 2) = "-"
    /\ \A k \in 3..Len(w) : IsDigit(Ch(w, k))

\* the places where q has a display id written as a word of its own
DisplayIdsIn(q) ==
    {span \in (1..Len(q)) \X (1..Len(q)) :
        /\ Ch(q, span[1]) \in {"P", "p"}
        /\ span[1] < span[2]
        /\ ~ IsWordChar(Ch(q, span[1] - 1))
        /\ ~ IsWordChar(Ch(q, span[2] + 1))
        /\ IsDisplayIdText(SubSeq(q, span[1], span[2]))}

FirstDisplayId(q) ==
    LET span == CHOOSE s \in DisplayIdsIn(q) : \A o \in DisplayIdsIn(q) : s[1] <= o[1]
    IN  SubSeq(q, span[1], span[2])

Occurrences(s, w) == Cardinality({i \in 1..Len(s) : StartsAt(s, i, w)})

\* C3: a query with a problem identifier and an analysis verb is classified
\* as analyze_problem, with the identifier as it is written in the query (the
\* letter case and the hyphen kept); analyze_problem never has problem_id
\* unset.
C3_AnalyzeProblemVerbatim ==
    pc = "classified" =>
        /\ ContainsAny(Lower(query), ClaimAnalysisVerbs) /\ DisplayIdsIn(query) # {}
           => skill = "analyze_problem" /\ params.problem_id = Some(FirstDisplayId(query))
        /\ ContainsAny(Lower(query), ClaimAnalysisVerbs) /\ ExtractProblemId(query) # None
           => /\ skill = "analyze_problem"
              /\ params.problem_id # None
              /\ Contains(query, params.problem_id[1])
        /\ skill = "analyze_problem" => params.problem_id # None

\* a lower-case display id after an analysis verb, kept as written
C3_Witness ==
    /\ pc = "classified"
    /\ query = "tell me about p-7"
    /\ skill = "analyze_problem"
    /\ params.problem_id = Some("p-7")

\* C4: a query with a root-cause phrase and a word of the problem vocabulary
\* that the analyze_problem rule does not take is root_cause_analysis, never
\* list_problems.
C4_RootCauseBeforeListing ==
    /\ pc = "classified"
    /\ ContainsAny(Lower(query), ClaimRootCausePhrases)
    /\ ContainsAny(Lower(query), ClaimProblemVocabulary)
    /\ skill # "analyze_problem"
    => skill = "root_cause_analysis"

C4_Witness ==
    /\ pc = "classified"
    /\ query = "Why is the problem"
    /\ skill = "root_cause_analysis"

\* C5: on "investigate" the two rules do not overlap: with a problem
\* identifier in the query the skill is analyze_problem, and
\* root_cause_analysis is chosen only when no identifier can be extracted.
C5_InvestigateDisjoint ==
    pc = "classified" /\ Contains(Lower(query), "investigate") =>
        /\ ExtractProblemId(query) # None \/ DisplayIdsIn(query) # {}
           => skill = "analyze_problem"
        /\ skill = "root_cause_analysis"
           => /\ ExtractProblemId(query) = None
              /\ DisplayIdsIn(query) = {}
              /\ params.problem_id = None

C5_Witness ==
    /\ pc = "classified"
    /\ query = "investigate P-12345"
    /\ skill = "analyze_problem"

\* C6: root_cause_analysis has exactly one of problem_id and symptoms set:
\* problem_id when an identifier can be extracted, else symptoms, equal to
\* the whole query as given.
C6_ProblemIdXorSymptoms ==
    pc = "classified" /\ skill = "root_cause_analysis" =>
        /\ (params.problem_id = None) # (params.symptoms = None)
        /\ ExtractProblemId(query) # None
           => params.problem_id = ExtractProblemId(query) /\ params.symptoms = None
        /\ DisplayIdsIn(query) # {}
           => params.problem_id = Some(FirstDisplayId(query)) /\ params.symptoms = None
        /\ ExtractProblemId(query) = None
           => params.problem_id = None /\ params.symptoms = Some(query)

C6_Witness ==
    /\ pc = "classified"
    /\ query = "root cause analysis for P-12345"
    /\ skill = "root_cause_analysis"
    /\ params.problem_id = Some("P-12345")
    /\ params.symptoms = None

\* C7: the parameters of list_problems: status OPEN with "open", else CLOSED
\* with "closed", else unset; severity AVAILABILITY with "critical" or
\* "availability", else ERROR with "error", else PERFORMANCE with
\* "performance" or "slow", else unset; time_range the extracted range.
\* "Show me open problems from last 24 hours" is list_problems with OPEN, no
\* severity and 24h.
C7_ListProblemsParameters ==
    pc = "classified" =>
        /\ skill = "list_problems" =>
              LET lq == Lower(query)
              IN  /\ params.status =
                        IF Contains(lq, "open") THEN Some("OPEN")
                        ELSE IF Contains(lq, "closed") THEN Some("CLOSED")
                        ELSE None
                  /\ params.severity =
                        IF Contains(lq, "critical") \/ Contains(lq, "availability")
                        THEN Some("AVAILABILITY")
                        ELSE IF Contains(lq, "error") THEN Some("ERROR")
                        ELSE IF Contains(lq, "performance") \/ Contains(lq, "slow")
                        THEN Some("PERFORMANCE")
                        ELSE None
                  /\ params.time_range = ExtractTimeRange(query)
                  /\ timeRange # None => params.time_range = timeRange[1]
        /\ query = "Show me open problems from last 24 hours" =>
              /\ skill = "list_problems"
              /\ params = [status |-> Some("OPEN"), severity |-> None, time_range |-> "24h"]

\* a listing whose query names two severities, the later-listed one first
C7_Witness ==
    /\ pc = "classified"
    /\ query = "closed or open error critical issues last 2 hours"
    /\ skill = "list_problems"
    /\ params = [status |-> Some("OPEN"), severity |-> Some("AVAILABILITY"),
                 time_range |-> "2h"]

\* r is digits followed by h or d
IsRangeText(r) ==
    /\ Len(r) >= 2
    /\ Ch(r, Len(r)) \in {"h", "d"}
    /\ \A k \in 1..(Len(r) - 1) : IsDigit(Ch(r, k))

ClaimNumbers == (1..MaxNumber) \cup {24}

\* C8: _extract_time_range gives the result of the first pattern of its list
\* that matches, wherever in the text the matches are, and "24h" when none
\* does; the result is digits followed by h or d; "last n hours" and "past n
\* hours" give nh, "last n weeks" gives (7n)d.
C8_FirstPatternInListOrder ==
    timeRange # None =>
        LET r == timeRange[1]
            lq == Lower(query)
            results == TimePatternResults(query)
        IN  /\ (\A k \in 1..Len(results) : results[k] = None) => r = "24h"
            /\ \A k \in 1..Len(results) :
                  results[k] # None /\ (\A j \in 1..(k - 1) : results[j] = None)
                  => r = results[k][1]
            /\ IsRangeText(r)
            /\ \A n \in ClaimNumbers :
                  /\ Contains(lq, "last " \o IntToStr(n) \o " hours")
                        /\ Occurrences(lq, "last") = 1
                     => r = IntToStr(n) \o "h"
                  /\ Contains(lq, "past " \o IntToStr(n) \o " hours")
                        /\ Occurrences(lq, "last") = 0 /\ Occurrences(lq, "past") = 1
                     => r = IntToStr(n) \o "h"
                  /\ Contains(lq, "last " \o IntToStr(n) \o " weeks")
                        /\ Occurrences(lq, "last") = 1
                     => r = IntToStr(7 * n) \o "d"

\* a query whose text has a later-listed pattern before an earlier-listed one
C8_Witness ==
    /\ query = "alerts 2 day ago last 2 hours"
    /\ timeRange = Some("2h")

\* C9: each example phrase of the agent card and of the help message is
\* classified to the skill it is listed under.
C9_ExamplesReachTheirSkill ==
    pc = "classified" =>
        \A e \in CardExamples : query = e[1] => skill = e[2]

C9_Witness ==
    /\ pc = "classified"
    /\ query = "What was deployed this week?"
    /\ skill = "get_deployments"

-----------------------------------------------------------------------------
(* Properties of the language-model calls.                                  *)

\* the outcome of a model call is a rate-limit failure
IsRateLimitOutcome(outcome) ==
    outcome # "ok" /\ (Contains(outcome, "429") \/ Contains(outcome, "RESOURCE_EXHAUSTED"))

EndsWith(s, w) == Len(w) <= Len(s) /\ SubSeq(s, Len(s) - Len(w) + 1, Len(s)) = w

FallbackList == {model, "gemini-1.5-flash", "gemini-1.5-pro"}

\* C11: when every model call of a request failed with a rate-limit error and
\* the rate-limit notice was returned, each model of the fallback list
\* (configured model, gemini-1.5-flash, gemini-1.5-pro) has been attempted.
C11_NoticeAfterEveryModel ==
    /\ response # None
    /\ EndsWith(response[1], RateLimitNotice)
    => \A m \in FallbackList : \E k \in 1..Len(aiCalls) : aiCalls[k].model = m

\* C12: only a rate-limit failure is followed by a call of the next model;
\* after any other failure the call ends at once with "AI analysis error: "
\* and at most 100 characters of the message, and nothing is raised.
C12_RetryOnlyOnRateLimit ==
    /\ \A k \in 1..(Len(aiCalls) - 1) : IsRateLimitOutcome(aiCalls[k].outcome)
    /\ \A k \in 1..Len(aiCalls) :
          aiCalls[k].outcome # "ok" /\ ~ IsRateLimitOutcome(aiCalls[k].outcome)
          => /\ k = Len(aiCalls)
             /\ pc \in {"enqueue", "done"}
             /\ raised = {}
             /\ response # None
             /\ \E n \in 0..100 :
                   /\ n = Len(aiCalls[k].outcome) \/ n = 100
                   /\ n <= Len(aiCalls[k].outcome)
                   /\ EndsWith(response[1],
                               "AI analysis error: " \o SubSeq(aiCalls[k].outcome, 1, n))

\* a model call that failed with a long message other than a rate limit,
\* after an earlier model was rate-limited
C12_Witness ==
    /\ pc = "done"
    /\ Len(aiCalls) = 2
    /\ aiCalls[1].outcome = RateLimitError
    /\ aiCalls[2].outcome = LongModelError
    /\ Len(events[1]) < Len(LongModelError) + Len("AI analysis error: ")

AnalysisIntents == {"analyze_problem", "root_cause_analysis", "health_summary", "query"}

\* C13: for the four analysis intents, once the fetches have succeeded and
\* the language model has been called, the returned text is the rendered
\* data section followed by the output of the model call, also when that
\* output is the notice or the placeholder of a failed call.
C13_DataSectionKept ==
    /\ skill \in AnalysisIntents
    /\ aiCalls # << >>
    /\ response # None
    => /\ output # << >>
       /\ StartsWith(response[1], Join(output, "\n"))
       /\ Len(response[1]) > Len(Join(output, "\n"))

\* C14: the serialized context data in the prompt of every model call is at
\* most 4000 characters long.
C14_ContextWithinBudget ==
    \A k \in 1..Len(aiCalls) : aiCalls[k].context_len <= 4000

-----------------------------------------------------------------------------
(* Properties of the fetches.                                               *)

SecondaryFetches == {"ap_get_releases", "rca_query_metrics", "rca_get_releases", "q_query_metrics"}

IsErrorLine(text) ==
    /\ StartsWith(text, Cross \o " Error")
    /\ ~ Contains(text, "\n")

\* C15: a failed secondary fetch (releases in analyze_problem, CPU metrics and
\* releases in root_cause_analysis, CPU metrics in query) is passed over: the
\* skill goes on to its analysis and returns its report without that section
\* and not an error text; a failed primary fetch gives the error text.
C15_SecondaryFailureSwallowed ==
    response # None =>
        /\ faults \cap SecondaryFetches # {} /\ faults \subseteq SecondaryFetches \cup {"ai_generate"}
           => /\ ~ StartsWith(response[1], Cross)
              /\ aiCalls # << >>
              /\ "ap_get_releases" \in faults
                 => \A k \in 1..Len(output) : ~ Contains(output[k], "Recent Deployments")
              /\ "rca_query_metrics" \in faults \/ "q_query_metrics" \in faults
                 => "cpu_metrics" \notin context
              /\ "rca_get_releases" \in faults => "recent_releases" \notin context
        /\ ~ (faults \subseteq SecondaryFetches \cup {"ai_generate"})
           => StartsWith(response[1], Cross \o " Error") /\ aiCalls = << >>

\* analyze_problem whose releases lookup failed and whose report was returned
C15_Witness ==
    /\ pc = "done"
    /\ faults = {"ap_get_releases"}
    /\ StartsWith(events[1], FormatProblem([affected |-> "id"]))
    /\ Contains(events[1], ModelText)

\* the failures of the primary fetch of a skill: a request that failed, or
\* the display id that the search did not resolve
PrimaryFetchFailed ==
    \/ ~ (faults \subseteq SecondaryFetches \cup {"ai_generate"})
    \/ lookup # None /\ Lookup("P-0", lookup[1]).raises

-----------------------------------------------------------------------------
(* Properties of cancellation.                                              *)

\* C17: once cancel has been called for a request nothing more is enqueued
\* for it: "Task cancelled." is the last message on the queue.
C17_NothingAfterCancel ==
    \A k \in 1..Len(events) : events[k] = CancelMessage => k = Len(events)

-----------------------------------------------------------------------------
(* Properties of the sequence of gateway calls.                             *)

\* the calls of the client's methods behind the requests: the search and the
\* detail request of one get_problem_details are one call
GatewayCalls ==
    Cardinality({k \in 1..Len(requests) :
        ~ /\ k > 1
          /\ k \in DetailRequests
          /\ requests[k - 1].endpoint = "/problems"
          /\ requests[k - 1].params.pageSize = 1})

-----------------------------------------------------------------------------
(* Properties of the metrics query.                                         *)

\* the length in hours of a time range written <n>h or <n>d
WindowHours(time_range) ==
    LET n == ParseInt(SubSeq(time_range, 1, Len(time_range) - 1))
    IN  IF Ch(time_range, Len(time_range)) = "h" THEN n ELSE 24 * n

\* C19 as stated: query_metrics asks for resolution "10m" exactly when the
\* window is shorter than 2 hours, and for "1h" otherwise.
C19_FineResolutionUnderTwoHours ==
    skill = "query_metrics" /\ requests # << >> =>
        /\ requests[1].params.resolution \in {"10m", "1h"}
        /\ requests[1].params.resolution = "10m" <=> WindowHours(params.time_range) < 2

\* C19 as amended: query_metrics asks for resolution "10m" exactly when the
\* time range is the string "1h" or "2h", and for "1h" with every other
\* time range.
C19_FineResolutionForOneAndTwoHours ==
    skill = "query_metrics" /\ requests # << >> =>
        /\ requests[1].params.from = "now-" \o params.time_range
        /\ requests[1].params.resolution =
              IF params.time_range = "1h" \/ params.time_range = "2h" THEN "10m" ELSE "1h"

\* a window of two hours queried at the finer resolution
C19_Witness ==
    /\ pc = "done"
    /\ skill = "query_metrics"
    /\ params.time_range = "2h"
    /\ requests[1].params.from = "now-2h"
    /\ requests[1].params.resolution = "10m"

-----------------------------------------------------------------------------
(* Properties of the data selection of the free-text query skill.           *)

\* the keyword groups that occur in the question
MatchedGroups ==
    {j \in 1..Len(QueryKeywords) : ContainsAny(Lower(params.question), QueryKeywords[j])}

DefaultSnapshotRequest == GetProblemsRequest(None, None, "now-24h")

\* the default snapshot has been asked for: a problems request beyond the
\* one of the problem keyword group
DefaultSnapshotFetched ==
    Cardinality({k \in 1..Len(requests) : requests[k] = DefaultSnapshotRequest})
        > (IF 1 \in MatchedGroups THEN 1 ELSE 0)

OnlyMatchedGroupsFetched ==
    \A k \in 1..Len(requests) :
        \/ \E j \in MatchedGroups : requests[k] = QueryRequests[j]
        \/ DefaultSnapshotFetched /\ requests[k] = DefaultSnapshotRequest

-----------------------------------------------------------------------------
(* Startup.                                                                 *)

C21_Required == {"DYNATRACE_URL", "DYNATRACE_API_TOKEN", "GEMINI_API_KEY"}

C21_AnyMissing == \E v \in C21_Required : env[v] \in {None, Some("")}

\* the statements of main from the creation of the application on
C21_FromCreation == {"create_app", "create_app_error", "run", "serving"}

\* C21 as stated: with one of DYNATRACE_URL, DYNATRACE_API_TOKEN and
\* GEMINI_API_KEY unset or empty, main never reaches the creation of the
\* application or the serving of requests; with all three set, main does not
\* end before the creation of the application.
C21_ProceedsWhenAllSet ==
    /\ C21_AnyMissing => boot.at \notin C21_FromCreation
    /\ ~C21_AnyMissing => boot.at \notin {"exit", "main_error"}

\* C21 (amended): with one of the three variables unset or empty, main never
\* reaches the creation of the application or the serving of requests; with
\* all three set and PORT unset or a number, main does not end before the
\* creation of the application.
C21_ProceedsWhenAllSetAndPortValid ==
    /\ C21_AnyMissing => boot.at \notin C21_FromCreation
    /\ (~C21_AnyMissing /\ env.PORT \in {None, Some("8080")})
          => boot.at \notin {"exit", "main_error"}

\* all three variables and PORT are set, and main has gone on to create the
\* application
C21_Witness ==
    /\ ~C21_AnyMissing
    /\ env.PORT = Some("8080")
    /\ boot.at = "create_app"

-----------------------------------------------------------------------------
(* The problem list list_problems returns.                                  *)

\* the lines of a text
RECURSIVE Lines(_)
Lines(text) ==
    LET breaks == {i \in 1..Len(text) : Ch(text, i) = "\n"}
    IN  IF breaks = {} THEN <<text>>
        ELSE <<SubSeq(text, 1, Min(breaks) - 1)>> \o Lines(Suffix(text, Min(breaks) + 1))

\* a line of the form `<emoji> **<id>** - <title> [<severity>]`
IsProblemLine(line) ==
    /\ StartsWith(line, RedDot \o " **") \/ StartsWith(line, GreenDot \o " **")
    /\ Contains(line, "** - ")
    /\ EndsWith(line, "]")

ProblemLinesShown(text) ==
    Cardinality({k \in 1..Len(Lines(text)) : IsProblemLine(Lines(text)[k])})

\* the lines of the form `... and <N> more problems`
MoreLines(text) ==
    {k \in 1..Len(Lines(text)) :
        /\ StartsWith(Lines(text)[k], "... and ")
        /\ EndsWith(Lines(text)[k], " more problems")}

\* the N of the suffix, 0 without a suffix
MoreCount(text) ==
    IF MoreLines(text) = {} THEN 0
    ELSE LET line == Lines(text)[Max(MoreLines(text))]
         IN  ParseInt(SubSeq(line, Len("... and ") + 1, Len(line) - Len(" more problems")))

\* list_problems has returned the formatted list of the response in reply
ProblemListFormatted ==
    skill = "list_problems" /\ reply # None /\ response # None

\* C22: for a response of N problems with totalCount = N the text shows
\* min(N, 10) problem lines; it ends with "... and N-10 more problems" when
\* N > 10 and has no such line when N <= 10.
C22_TenShownAndTheRestCounted ==
    (ProblemListFormatted /\ "totalCount" \in DOMAIN reply[1]
        /\ reply[1].totalCount = Len(reply[1].problems))
    => LET N == reply[1].totalCount
           text == response[1]
       IN  /\ ProblemLinesShown(text) = IF N < 10 THEN N ELSE 10
           /\ N > 10 => /\ Cardinality(MoreLines(text)) = 1
                        /\ EndsWith(text, "\n... and " \o IntToStr(N - 10) \o " more problems")
           /\ N <= 10 => MoreLines(text) = {}

\* 15 problems: 10 shown, "... and 5 more problems"
C22_Witness ==
    /\ ProblemListFormatted
    /\ reply[1] = [totalCount |-> 15, problems |-> ProblemSummaries(15)]
    /\ ProblemLinesShown(response[1]) = 10
    /\ MoreCount(response[1]) = 5

\* C23: for a response with totalCount = 0 the text is the fixed message,
\* whatever the problems list holds: no problem line, no suffix.
C23_NoProblemsMessage ==
    (ProblemListFormatted /\ "totalCount" \in DOMAIN reply[1] /\ reply[1].totalCount = 0)
    => /\ response[1] = "No problems found in the specified timeframe."
       /\ ProblemLinesShown(response[1]) = 0
       /\ MoreLines(response[1]) = {}

\* totalCount = 0 with three problems in the list
C23_Witness ==
    /\ ProblemListFormatted
    /\ reply[1] = [totalCount |-> 0, problems |-> ProblemSummaries(3)]
    /\ pc = "done"

\* C30: for a response with totalCount > 0 the problem lines shown plus the
\* N of the suffix make totalCount, whatever the length of the problems list.
C30_ShownPlusMoreIsTotal ==
    (ProblemListFormatted /\ "totalCount" \in DOMAIN reply[1] /\ reply[1].totalCount > 0)
    => ProblemLinesShown(response[1]) + MoreCount(response[1]) = reply[1].totalCount

-----------------------------------------------------------------------------
(* The metrics text query_metrics returns.                                  *)

\* query_metrics has returned the formatted data of the response in reply
MetricsFormatted ==
    skill = "query_metrics" /\ reply # None /\ response # None

\* the lines of the text that start with a label, without the label
Labelled(text, label) ==
    LET ls == Lines(text)
    IN  {Suffix(ls[k], Len(label) + 1) : k \in {i \in 1..Len(ls) : StartsWith(ls[i], label)}}

\* the number of hundredths a text of the form <digits>.<two digits> denotes
Hundredths(t) ==
    100 * ParseInt(SubSeq(t, 1, Len(t) - 3)) + ParseInt(Suffix(t, Len(t) - 1))

\* the response is one metric with one series that has values and timestamps
OneSeries ==
    /\ "result" \in DOMAIN reply[1]
    /\ Len(reply[1].result) = 1
    /\ Len(reply[1].result[1].data) = 1
    /\ {"values", "timestamps"} \subseteq DOMAIN reply[1].result[1].data[1]
    /\ reply[1].result[1].data[1].values # << >>
    /\ reply[1].result[1].data[1].timestamps # << >>

\* the positions of the non-null values of the series
NonNull(values) == {k \in 1..Len(values) : values[k] # None}

RECURSIVE Total(_, _)
Total(values, positions) ==
    IF positions = {} THEN 0
    ELSE LET k == CHOOSE i \in positions : TRUE
         IN  values[k][1] + Total(values, positions \ {k})

\* C24: the range of a series goes from the least to the greatest of its
\* non-null values and its average is the sum of the non-null values over
\* their number, rendered to the nearest hundredth; a series of nulls only
\* has neither line.
C24_StatisticsOverNonNullValues ==
    (MetricsFormatted /\ OneSeries)
    => LET values == reply[1].result[1].data[1].values
           present == NonNull(values)
           numbers == {values[k][1] : k \in present}
           text == response[1]
       IN  IF present = {}
           THEN Labelled(text, "**Range:** ") = {} /\ Labelled(text, "**Average:** ") = {}
           ELSE /\ Labelled(text, "**Range:** ")
                     = {IntToStr(Min(numbers)) \o ".00 - " \o IntToStr(Max(numbers)) \o ".00"}
                /\ \E average \in Labelled(text, "**Average:** ") :
                      /\ Labelled(text, "**Average:** ") = {average}
                      /\ LET distance == Hundredths(average) * Cardinality(present)
                                            - 100 * Total(values, present)
                         IN  2 * distance <= Cardinality(present)
                             /\ -2 * distance <= Cardinality(present)

\* values [10, null, 20]: range 10.00 - 20.00, average 15.00
C24_Witness ==
    /\ MetricsFormatted /\ OneSeries
    /\ reply[1].result[1].data[1].values = << Some(10), None, Some(20) >>
    /\ Labelled(response[1], "**Range:** ") = {"10.00 - 20.00"}
    /\ Labelled(response[1], "**Average:** ") = {"15.00"}

\* every series of the response has dimensions, so that each rendered series
\* starts with a Dimensions line
EverySeriesLabelled ==
    /\ "result" \in DOMAIN reply[1]
    /\ \A m \in 1..Len(reply[1].result) : \A k \in 1..Len(reply[1].result[m].data) :
          /\ "dimensions" \in DOMAIN reply[1].result[m].data[k]
          /\ reply[1].result[m].data[k].dimensions # << >>

\* the lines that start the section of a metric
MetricHeaders(ls) == {h \in 1..Len(ls) : StartsWith(ls[h], "## ")}

\* the series rendered in the section that starts at line h
SeriesOfSection(ls, h) ==
    {k \in (h + 1)..Len(ls) :
        /\ StartsWith(ls[k], "**Dimensions:** ")
        /\ \A j \in (h + 1)..k : j \notin MetricHeaders(ls)}

SeriesRendered(text) ==
    Cardinality({k \in 1..Len(Lines(text)) : StartsWith(Lines(text)[k], "**Dimensions:** ")})

\* C25 as stated: the text of a metrics response shows 5 series at most.
C25_AtMostFiveSeries ==
    (MetricsFormatted /\ EverySeriesLabelled) => SeriesRendered(response[1]) <= 5

\* C25 (amended): the text of a metrics response shows 5 series at most for
\* each of its metrics.
C25_AtMostFiveSeriesOfEachMetric ==
    (MetricsFormatted /\ EverySeriesLabelled)
    => LET ls == Lines(response[1])
       IN  /\ Cardinality(MetricHeaders(ls)) = Len(reply[1].result)
           /\ \A h \in MetricHeaders(ls) : Cardinality(SeriesOfSection(ls, h)) <= 5

\* two metrics of seven series each: ten series shown
C25_Witness ==
    /\ MetricsFormatted /\ EverySeriesLabelled
    /\ Len(reply[1].result) = 2
    /\ \A m \in 1..2 : Len(reply[1].result[m].data) = 7
    /\ SeriesRendered(response[1]) = 10

-----------------------------------------------------------------------------
(* The empty request.                                                       *)

IsBlank(q) == \A i \in 1..Len(q) : Ch(q, i) = " "

\* C26: for a query that is empty or made of blanks execute enqueues the help
\* message and nothing else, and neither classifies the query nor calls the
\* monitoring API or the language model.
C26_HelpAndNothingElse ==
    IsBlank(query)
    => /\ skill = "" /\ params = << >> /\ pc \in {"start", "done"}
       /\ requests = << >>
       /\ aiCalls = << >>
       /\ events = IF pc = "done" THEN << HelpMessage >> ELSE << >>

\* a query of two blanks has been answered with the help message
C26_Witness ==
    /\ query = "  "
    /\ pc = "done"
    /\ events = << HelpMessage >>

-----------------------------------------------------------------------------
(* The free-text skill behind the classifier.                               *)

\* a request for the entities of one type
IsEntitiesRequest(r, type) ==
    r.endpoint = "/entities" /\ r.params.entitySelector = "type(\"" \o type \o "\")"

\* C27: when _parse_intent has routed the query to the query skill, the skill
\* takes neither its problem, release nor metric branch: it asks for SERVICE
\* entities, for HOST entities, or, when the question names neither, for the
\* default 24h problems snapshot alone, in two requests at most.
C27_OnlyEntitiesOrDefaultSnapshot ==
    skill = "query"
    => /\ context \cap {"problems", "releases", "cpu_metrics"} = {}
       /\ Len(requests) <= 2
       /\ \A k \in 1..Len(requests) :
             \/ IsEntitiesRequest(requests[k], "SERVICE")
                  /\ ContainsAny(Lower(query), {"service", "dependency"})
             \/ IsEntitiesRequest(requests[k], "HOST")
                  /\ ContainsAny(Lower(query), {"host", "server", "infrastructure"})
             \/ /\ requests[k] = GetProblemsRequest(None, None, "now-24h")
                /\ Len(requests) = 1
                /\ ~ContainsAny(Lower(query), {"service", "dependency", "host", "server",
                                               "infrastructure"})

\* a question that names a service and a host: both entity lists fetched
C27_Witness ==
    /\ skill = "query"
    /\ query = "the checkout service on the new host"
    /\ Len(requests) = 2
    /\ context = {"services", "hosts"}
    /\ pc = "done"

-----------------------------------------------------------------------------
(* The time window of the requests.                                         *)

WindowedSkills == {"list_problems", "query_metrics", "get_deployments"}

\* the query holds no digit, no "today" and no "week": no pattern of
\* _extract_time_range matches it
NoTimeExpression(q) ==
    /\ \A i \in 1..Len(q) : ~IsDigit(Ch(q, i))
    /\ ~Contains(Lower(q), "today")
    /\ ~Contains(Lower(q), "week")

\* C28: the window of the request of list_problems, query_metrics and
\* get_deployments is the time range the classifier has put into the
\* parameters, never a fallback default of execute or of the skill: for a
\* query without a time expression it is now-24h, with resolution 1h for
\* metrics.
C28_WindowFromClassifier ==
    (skill \in WindowedSkills /\ requests # << >>)
    => /\ Len(requests) = 1
       /\ "time_range" \in DOMAIN params
       /\ requests[1].params.from = "now-" \o params.time_range
       /\ requests[1].endpoint
             = CASE skill = "list_problems" -> "/problems"
                 [] skill = "query_metrics" -> "/metrics/query"
                 [] skill = "get_deployments" -> "/releases"
       /\ NoTimeExpression(query)
             => /\ requests[1].params.from = "now-24h"
                /\ skill = "query_metrics" => requests[1].params.resolution = "1h"

\* a deployments query without a time expression has asked for now-24h
C28_Witness ==
    /\ skill = "get_deployments"
    /\ query = "who changed production"
    /\ requests = << GetReleasesRequest(None, "now-24h") >>

-----------------------------------------------------------------------------
(* The problem report of analyze_problem.                                   *)

\* analyze_problem has returned after get_problem_details gave it a record
AnalyzedFetchedProblem ==
    skill = "analyze_problem" /\ problem # None /\ response # None

\* C29: for every problem record fetched, analyze_problem returns a text
\* that starts with the report format_problem makes of the record, also when
\* the entityId of an affected entity is a plain string.
C29_ReportForEveryRecord ==
    AnalyzedFetchedProblem
    => /\ StartsWith(response[1], FormatProblem(problem[1]))
       /\ ~IsErrorLine(response[1])

\* the same for the records whose entityId is an object
C29_ReportForObjectEntityIds ==
    (AnalyzedFetchedProblem /\ problem[1].affected # "string")
    => /\ StartsWith(response[1], FormatProblem(problem[1]))
       /\ ~IsErrorLine(response[1])

=============================================================================
